---- MODULE Spec2Model ----
(***************************************************************************)
(* Model of ebpub.db.schemafilters: the NewsitemFilter variants and the    *)
(* FilterChain container (a SortedDict keyed by strings) that parses,      *)
(* orders, validates and applies them.                                     *)
(*                                                                         *)
(* Chains are objects on a heap (heap[i] is the i-th live FilterChain), so *)
(* that copy(), normalized_clone() and make_breadcrumbs() are seen to work *)
(* on a container of their own.  Filters are objects too: every filter     *)
(* carries an object id (oid), chains that were copied share the objects,  *)
(* and apply() writes the narrowed query back into the shared object.      *)
(***************************************************************************)
EXTENDS Integers, Sequences, FiniteSets, TLC

VARIABLES heap, copyRef, registry, last

vars == <<heap, copyRef, registry, last>>

(***************************************************************************)
(* Bounds of the model.                                                    *)
(***************************************************************************)
\* Longest chain an insertion may produce.
MaxLen == 3
\* Most ';'-separated clauses in an argument string given to from_request.
MaxClauses == 2

(***************************************************************************)
(* Sequence helpers.                                                       *)
(***************************************************************************)
Range(s) == {s[i] : i \in 1..Len(s)}

RECURSIVE SeqsUpTo(_, _)
SeqsUpTo(S, n) ==
    IF n = 0 THEN {<<>>}
    ELSE LET shorter == SeqsUpTo(S, n - 1)
         IN  shorter \cup {Append(s, x) : s \in {t \in shorter : Len(t) = n - 1}, x \in S}

\* The element of a one-element set.  Only({F(x) : x \in {e}}) is F(e), with
\* e worked out once however often F uses it.
Only(S) == CHOOSE x \in S : TRUE

\* s without its i-th element.
RemoveAt(s, i) == SubSeq(s, 1, i - 1) \o SubSeq(s, i + 1, Len(s))

(***************************************************************************)
(* The world outside the module: schema fields, lookups, locations, blocks *)
(* and the news items a query ranges over.                                 *)
(***************************************************************************)
\* models.SchemaField rows: slug, name (the attribute name) and type.
AllFields ==
    { [slug |-> "tag",  name |-> "tag",     kind |-> "lookup"],
      [slug |-> "open", name |-> "is_open", kind |-> "bool"],
      [slug |-> "body", name |-> "body",    kind |-> "text"],
      [slug |-> "num",  name |-> "num",     kind |-> "int"] }

FieldSlugs == {sf.slug : sf \in AllFields}
FieldBySlug(slug) == CHOOSE sf \in AllFields : sf.slug = slug

\* models.Lookup rows of the lookup field: slugs that Lookup.objects.get finds.
LookupSlugs == {"theft", "arson"}

\* models.Location rows, by location type slug.
PublicLocations == [t \in {"zip", "ward"} |-> IF t = "zip" THEN {"12345"} ELSE {}]

\* The news items of the database: NewsItem.objects.all().
ItemIds == {1, 2, 3}
ItemRow(i) ==
    CASE i = 1 -> [schema |-> "crime", date |-> 20200115, pub |-> 20200116,
                   loc |-> "12345", blk |-> "main-st", tag |-> "theft",
                   open |-> "True", body |-> "fire", num |-> "7"]
      [] i = 2 -> [schema |-> "crime", date |-> 20200131, pub |-> 20200201,
                   loc |-> "12345", blk |-> "elm-st", tag |-> "arson",
                   open |-> "False", body |-> "fire", num |-> "7"]
      [] OTHER -> [schema |-> "permit", date |-> 20200201, pub |-> 20200115,
                   loc |-> "67890", blk |-> "main-st", tag |-> "theft",
                   open |-> "None", body |-> "flood", num |-> "8"]

\* context['newsitem_qs'], the query the view hands to from_request.
NewsitemQs == {1, 2}

\* context['schema'] of a request that names a schema.
CtxSchema == "crime"

(***************************************************************************)
(* Values handed to the constructors: URL tokens (strings) and, through    *)
(* add(), model objects and dates.  A date is the integer yyyymmdd.        *)
(***************************************************************************)
NoFilter == [kind |-> "none", oid |-> 0, qs |-> {}, sf |-> "", args |-> <<>>,
             lo |-> 0, hi |-> 0, got |-> FALSE, bound |-> FALSE]

Val(t, s, n) == [t |-> t, s |-> s, n |-> n, f |-> NoFilter]
Str(s) == Val("str", s, 0)
DateVal(n) == Val("date", "", n)
FilterVal(f) == [t |-> "Filter", s |-> "", n |-> 0, f |-> f]
Strs(tokens) == [i \in 1..Len(tokens) |-> Str(tokens[i])]

\* isinstance(v, basestring)
IsStr(v) == v.t = "str"

\* calendar: days of a month, leap years included.
IsLeap(y) == (y % 4 = 0 /\ y % 100 # 0) \/ y % 400 = 0
DaysInMonth(y, m) ==
    IF m = 2 THEN (IF IsLeap(y) THEN 29 ELSE 28)
    ELSE IF m \in {4, 6, 9, 11} THEN 30 ELSE 31

MkDate(y, m, d) == y * 10000 + m * 100 + d
YearOf(n) == n \div 10000
MonthOf(n) == (n \div 100) % 100
DayOf(n) == n % 100

\* A plausible slip in the date range: 'lt' given the end date itself, the
\* day not added.
NextDaySame(n) == n

\* date + datetime.timedelta(days=1)
NextDay(n) ==
    IF DayOf(n) < DaysInMonth(YearOf(n), MonthOf(n)) THEN n + 1
    ELSE IF MonthOf(n) < 12 THEN MkDate(YearOf(n), MonthOf(n) + 1, 1)
    ELSE MkDate(YearOf(n) + 1, 1, 1)

\* map(int, s.split('-')): the integer fields of a token; <<>> stands for a
\* token with a non-numeric field, on which int() raises ValueError.
SplitInts(s) ==
    CASE s = "2020-01-15" -> <<2020, 1, 15>>
      [] s = "2020-01-31" -> <<2020, 1, 31>>
      [] s = "2020-01-01" -> <<2020, 1, 1>>
      [] s = "2020-01-02" -> <<2020, 1, 2>>
      [] s = "2020-02-01" -> <<2020, 2, 1>>
      [] s = "2020-02-30" -> <<2020, 2, 30>>
      [] s = "2020-01"    -> <<2020, 1>>
      [] OTHER            -> <<>>

\* datetime.date(*map(int, s.split('-'))): 0 when it raises ValueError (a
\* non-numeric field, a day or month out of range) or TypeError (not three
\* fields); DateFilter catches both.
ParseDate(s) ==
    LET p == SplitInts(s)
    IN  IF Len(p) # 3 THEN 0
        ELSE IF p[2] \notin 1..12 THEN 0
        ELSE IF p[3] \notin 1..DaysInMonth(p[1], p[2]) THEN 0
        ELSE MkDate(p[1], p[2], p[3])

(***************************************************************************)
(* The filter variants.  A constructor yields [err, f]: err is "none" and  *)
(* f the filter built, or err names the exception raised.                  *)
(***************************************************************************)
\* FilterError(msg, url=None): url is the redirect the error suggests.
NoRedirect == [none |-> TRUE, path |-> "", radius |-> ""]

Built(f) == [err |-> "none", f |-> f, url |-> NoRedirect]
RaisedTo(e, url) == [err |-> e, f |-> NoFilter, url |-> url]
Raised(e) == RaisedTo(e, NoRedirect)

\* NewsitemFilter.__init__: the query the filter will narrow.
InitQs(queryset) == IF queryset.some THEN queryset.s ELSE ItemIds

NoQs == [some |-> FALSE, s |-> {}]
SomeQs(s) == [some |-> TRUE, s |-> s]

\* str(att_value) / strftime of the literal an AttributeFilter is given.
StrOfVal(v) ==
    IF v.t = "date"
    THEN CASE v.n = 20200115 -> "2020-01-15"
           [] v.n = 20200131 -> "2020-01-31"
           [] OTHER -> "date"
    ELSE v.s

SchemaFilter(queryset, schema) ==
    Built([NoFilter EXCEPT !.kind = "schema", !.qs = InitQs(queryset),
                           !.args = <<schema>>])

AttributeFilter(queryset, args, sf) ==
    Built([NoFilter EXCEPT !.kind = "attr", !.qs = InitQs(queryset), !.sf = sf.slug,
                           !.args = IF args = <<>> THEN <<>> ELSE <<StrOfVal(args[1])>>,
                           !.got = (args # <<>>)])

TextSearchFilter(queryset, args, sf) ==
    IF args = <<>> THEN Raised("FilterError")
    ELSE IF \E i \in 1..Len(args) : ~IsStr(args[i]) THEN Raised("TypeError")
    ELSE Built([AttributeFilter(queryset, args, sf).f EXCEPT
                    !.kind = "text", !.args = [i \in 1..Len(args) |-> args[i].s]])

\* The keys of the boolslug table.
BoolTokens == {"yes", "no", "na"}

\* Python's True, False and None.
PyTrue == Val("bool", "True", 0)
PyFalse == Val("bool", "False", 0)
PyNone == Val("none", "None", 0)

\* A plausible slip in the boolslug table: 'na' taken for False.
BoolRealValNaFalse(boolslug) ==
    IF ~IsStr(boolslug) THEN boolslug
    ELSE CASE boolslug.s = "yes" -> PyTrue
           [] boolslug.s = "no"  -> PyFalse
           [] boolslug.s = "na"  -> PyFalse
           [] OTHER              -> boolslug

\* self.real_val = {'yes': True, 'no': False, 'na': None}.get(boolslug, boolslug)
BoolRealVal(boolslug) ==
    IF ~IsStr(boolslug) THEN boolslug
    ELSE CASE boolslug.s = "yes" -> PyTrue
           [] boolslug.s = "no"  -> PyFalse
           [] boolslug.s = "na"  -> PyNone
           [] OTHER              -> boolslug

\* 'lookup_list' of BoolFilter.validate(): the slugs offered.
BoolLookupList == <<"yes", "no", "na">>

BoolFilter(queryset, args, sf) ==
    IF Len(args) > 1 THEN Raised("FilterError")
    ELSE IF Len(args) = 1
    \* "if self.real_val not in (True, False, None)"
    THEN IF BoolRealVal(args[1]) \in {PyTrue, PyFalse, PyNone}
         THEN Built([AttributeFilter(queryset, args, sf).f EXCEPT !.kind = "bool"])
         ELSE Raised("FilterError")
    ELSE Built([AttributeFilter(queryset, args, sf).f EXCEPT !.kind = "bool"])

LookupFilter(queryset, args, sf) ==
    IF args = <<>>
    THEN Built([AttributeFilter(queryset, args, sf).f EXCEPT !.kind = "lookup"])
    ELSE IF args[1].t = "Lookup" \/ (sf.kind = "lookup" /\ args[1].s \in LookupSlugs)
    THEN Built([AttributeFilter(queryset, args, sf).f EXCEPT
                    !.kind = "lookup", !.args = <<args[1].s>>])
    ELSE Raised("FilterError")

\* loc.location_type.slug of a models.Location
LocationTypeOf(slug) == IF slug = "12345" THEN "zip" ELSE "ward"

\* LocationFilter(..., location=loc): _update_location runs in the constructor.
LocationFilterOfObject(queryset, loc) ==
    Built([NoFilter EXCEPT !.kind = "location", !.qs = InitQs(queryset),
                           !.args = <<LocationTypeOf(loc.s), loc.s>>,
                           !.got = TRUE, !.bound = TRUE])

\* LocationFilter(..., *args) and LocationFilter(..., *args, location_type=t):
\* typeSlug is t.slug when the type object was given, "" otherwise.
LocationFilter(queryset, args, typeSlug) ==
    IF typeSlug = "" /\ args = <<>> THEN Raised("FilterError")
    ELSE LET ts == IF typeSlug # "" THEN typeSlug ELSE args[1].s
         IN  Built([NoFilter EXCEPT !.kind = "location", !.qs = InitQs(queryset),
                        !.args = IF Len(args) >= 2 THEN <<ts, args[2].s>> ELSE <<ts>>,
                        !.got = (Len(args) >= 2)])

\* get_metro()['multiple_cities'] of the deployment.
MultipleCities == FALSE

\* radius_from_urlfragment: the radius of a token such as "8-blocks"; "" when
\* it raises ValueError or TypeError.
RadiusFromUrlFragment(tok) ==
    CASE tok = "8-blocks" -> "8"
      [] tok = "1-block"  -> "1"
      [] tok = "8"        -> "8"
      [] OTHER            -> ""

\* re.search('^%s$' % constants.BLOCK_URL_REGEX, block_range)
MatchesBlockUrl(range) == range \in {"100-199", "200-299"}

\* block.number() + block.dir_url_bit() of an ebpub.streets Block
BlockRangeOf(block) == "100-199"

\* request.path, and the block radius cookie of the request ("" when the
\* request carries none).
RequestPath == "/crime/filter/streets=main-st,100-199/"
RequestCookie == ""

\* block_radius_value(request)[1]: the radius of the cookie, or the default.
BlockRadiusValue(cookie) == IF cookie # "" THEN cookie ELSE "8"

\* radius_url(path, radius): the path with the radius fragment appended.
RadiusUrl(path, radius) == [none |-> FALSE, path |-> path, radius |-> radius]

\* A plausible slip in the missing-radius branch: the error raised without
\* its redirect URL.
RadiusArgNoRedirect(args, ctxRadius) ==
    IF args # <<>>
    THEN IF RadiusFromUrlFragment(args[1].s) = ""
         THEN [err |-> "AttributeError", radius |-> "", url |-> NoRedirect]
         ELSE [err |-> "none", radius |-> RadiusFromUrlFragment(args[1].s),
               url |-> NoRedirect]
    ELSE IF ctxRadius = ""
    THEN [err |-> "FilterError", radius |-> "", url |-> NoRedirect]
    ELSE [err |-> "none", radius |-> ctxRadius, url |-> NoRedirect]

\* The radius step of BlockFilter.__init__: args are the arguments left after
\* city, street and block range; ctxRadius is context.get('block_radius'),
\* "" for None.  Yields [err, radius, url].
RadiusArg(args, ctxRadius) ==
    IF args # <<>>
    THEN IF RadiusFromUrlFragment(args[1].s) = ""
         \* 'bad radius %r' % self.block_radius, before it is ever set
         THEN [err |-> "AttributeError", radius |-> "", url |-> NoRedirect]
         ELSE [err |-> "none", radius |-> RadiusFromUrlFragment(args[1].s),
               url |-> NoRedirect]
    ELSE IF ctxRadius = ""
    \* FilterError('missing radius', url=radius_url(request.path, block_radius))
    THEN [err |-> "FilterError", radius |-> "",
          url |-> RadiusUrl(RequestPath, BlockRadiusValue(RequestCookie))]
    ELSE [err |-> "none", radius |-> ctxRadius, url |-> NoRedirect]

\* BlockFilter.__init__(..., *args) without a block keyword.
BlockFilter(queryset, args, ctxRadius) ==
    LET nloc == IF MultipleCities THEN 3 ELSE 2
        city == IF MultipleCities THEN args[1].s ELSE ""
    IN  IF Len(args) < nloc THEN Raised("FilterError")
        ELSE LET street == args[nloc - 1].s
                 range  == args[nloc].s
                 rad    == RadiusArg(SubSeq(args, nloc + 1, Len(args)), ctxRadius)
             IN  IF rad.err # "none" THEN RaisedTo(rad.err, rad.url)
                 ELSE IF ~MatchesBlockUrl(range) THEN Raised("FilterError")
                 ELSE Built([NoFilter EXCEPT !.kind = "block", !.qs = InitQs(queryset),
                                 !.args = <<city, street, range, rad.radius>>,
                                 !.got = TRUE])

\* BlockFilter.__init__(..., *args, block=b): _update_block runs in the constructor.
BlockFilterOfObject(queryset, args, block, ctxRadius) ==
    LET rad == RadiusArg(args, ctxRadius)
    IN  IF rad.err # "none" THEN RaisedTo(rad.err, rad.url)
        ELSE IF ~MatchesBlockUrl(BlockRangeOf(block)) THEN Raised("FilterError")
        ELSE Built([NoFilter EXCEPT !.kind = "block", !.qs = InitQs(queryset),
                        !.args = <<"", block.s, BlockRangeOf(block), rad.radius>>,
                        !.got = TRUE, !.bound = TRUE])

\* DateFilter.__init__ / PubDateFilter.__init__
DateFilterOfKind(kind, queryset, args) ==
    IF Len(args) # 2 THEN Raised("FilterError")
    ELSE LET start == IF IsStr(args[1]) THEN ParseDate(args[1].s)
                      ELSE IF args[1].t = "date" THEN args[1].n ELSE -1
             end   == IF IsStr(args[2]) THEN ParseDate(args[2].s)
                      ELSE IF args[2].t = "date" THEN args[2].n ELSE -1
         IN  IF start = 0 THEN Raised("FilterError")
             ELSE IF end = 0 THEN Raised("FilterError")
             \* neither a string nor a date: end_date + timedelta, or strftime, fails
             ELSE IF end = -1 THEN Raised("TypeError")
             ELSE IF start = -1 THEN Raised("AttributeError")
             ELSE Built([NoFilter EXCEPT !.kind = kind, !.qs = InitQs(queryset),
                             !.lo = start, !.hi = end])

DateFilter(queryset, args) == DateFilterOfKind("date", queryset, args)
PubDateFilter(queryset, args) == DateFilterOfKind("pubdate", queryset, args)

\* NewsitemFilter.name of a built filter: the key add() stores a location or
\* block filter under.
FilterName(f) ==
    CASE f.kind = "schema" -> "schema"
      [] f.kind \in {"location", "block"} -> "location"
      [] f.kind \in {"date", "pubdate"} -> "date"
      [] f.kind \in {"attr", "text", "bool", "lookup"} -> FieldBySlug(f.sf).name
      [] OTHER -> ""

\* NewsitemFilter._sort_value of each variant.
SortValue(f) ==
    CASE f.kind = "schema"  -> -9999
      [] f.kind \in {"date", "pubdate"} -> 1
      [] f.kind = "bool"    -> 100
      [] f.kind = "attr"    -> 101
      [] f.kind \in {"location", "block"} -> 200
      [] f.kind = "lookup"  -> 900
      [] f.kind = "text"    -> 1000
      [] OTHER              -> 100

(***************************************************************************)
(* The query collaborator: a query is a set of item ids, and every filter  *)
(* narrows it to the items its predicate selects.                          *)
(***************************************************************************)
RowAttr(row, slug) ==
    CASE slug = "tag"  -> row.tag
      [] slug = "open" -> row.open
      [] slug = "body" -> row.body
      [] OTHER         -> row.num

\* qs.filter(...), qs.by_attribute(...), qs.text_search(...): whether item i
\* passes the predicate of filter f.
Matches(i, f) ==
    LET row == ItemRow(i)
    IN  CASE f.kind = "schema"   -> row.schema = f.args[1]
          [] f.kind = "date"     -> f.lo <= row.date /\ row.date < NextDay(f.hi)
          [] f.kind = "pubdate"  -> f.lo <= row.pub /\ row.pub < NextDay(f.hi)
          [] f.kind = "location" -> row.loc = f.args[2]
          [] f.kind = "block"    -> row.blk = f.args[2]
          [] f.kind = "text"     -> Len(f.args) = 1 /\ RowAttr(row, f.sf) = f.args[1]
          \* by_attribute with a lookup of None finds no lookup row: 1=0
          [] f.kind = "lookup"   -> f.got /\ RowAttr(row, f.sf) = f.args[1]
          \* by_attribute(schemafield, real_val)
          [] f.kind = "bool"     -> RowAttr(row, f.sf) = BoolRealVal(Str(f.args[1])).s
          [] OTHER               -> RowAttr(row, f.sf) = f.args[1]

Narrow(q, f) == {i \in q : Matches(i, f)}

\* url_to_location / url_to_block find the place (Http404 otherwise).
KnownLocations == {"12345", "67890"}
KnownStreets == {"main-st", "elm-st"}

\* filt.apply(): narrows filt.qs and binds the late fields.  Yields [err, f].
FilterApply(f) ==
    CASE f.kind \in {"schema", "date", "pubdate", "text", "lookup"} ->
            Built([f EXCEPT !.qs = Narrow(f.qs, f)])
      [] f.kind = "attr" ->
            \* att_value is only set when an argument was given
            IF f.got THEN Built([f EXCEPT !.qs = Narrow(f.qs, f)])
            ELSE Raised("AttributeError")
      [] f.kind = "bool" ->
            \* real_val is only set when an argument was given; apply() also
            \* fills in short_value and value
            IF f.got THEN Built([f EXCEPT !.qs = Narrow(f.qs, f), !.bound = TRUE])
            ELSE Raised("AttributeError")
      [] f.kind = "location" ->
            IF f.bound THEN Built([f EXCEPT !.qs = Narrow(f.qs, f)])
            ELSE IF ~f.got THEN Raised("AttributeError")
            ELSE IF f.args[2] \notin KnownLocations THEN Raised("Http404")
            ELSE Built([f EXCEPT !.qs = Narrow(f.qs, f), !.bound = TRUE,
                                 !.args = <<LocationTypeOf(f.args[2]), f.args[2]>>])
      [] f.kind = "block" ->
            IF f.bound THEN Built([f EXCEPT !.qs = Narrow(f.qs, f)])
            ELSE IF f.args[2] \notin KnownStreets THEN Raised("Http404")
            ELSE Built([f EXCEPT !.qs = Narrow(f.qs, f), !.bound = TRUE])
      \* an object that is no filter was stored in the chain
      [] OTHER -> Raised("AttributeError")

\* filt.validate(): [err, need]; need is "" for the empty dict, otherwise the
\* lookup_type_slug of the choice the user still has to make.
NeedNothing == [err |-> "none", need |-> ""]
Need(what) == [err |-> "none", need |-> what]
ValidateRaised(e) == [err |-> e, need |-> ""]

FilterValidate(f) ==
    CASE f.kind \in {"schema", "text", "block", "date", "pubdate"} -> NeedNothing
      [] f.kind \in {"bool", "lookup"} -> IF f.got THEN NeedNothing ELSE Need(f.sf)
      [] f.kind = "location" ->
            IF f.got THEN NeedNothing
            ELSE IF f.args[1] \notin DOMAIN PublicLocations
                    \/ PublicLocations[f.args[1]] = {}
            THEN ValidateRaised("FilterError")
            ELSE Need(f.args[1])
      \* NewsitemFilter.validate, which AttributeFilter does not override
      [] f.kind = "attr" -> ValidateRaised("NotImplementedError")
      [] OTHER -> ValidateRaised("AttributeError")

(***************************************************************************)
(* FilterChain: the container.  A chain is [items, ld, schema, base_url];  *)
(* items is the SortedDict (keyOrder with the value stored at each key),   *)
(* ld is lookup_descriptions.  h is a heap: a sequence of chains, a chain  *)
(* being named by its index.                                               *)
(***************************************************************************)
EmptyChain == [items |-> <<>>, ld |-> <<>>, schema |-> "", base_url |-> ""]

Entry(key, f) == [key |-> key, f |-> f]

KeysOf(c) == [i \in 1..Len(c.items) |-> c.items[i].key]
KeySet(c) == {c.items[i].key : i \in 1..Len(c.items)}

\* self.has_key(key), key in self
HasKey(c, key) == key \in KeySet(c)

\* self[key]
IndexOfKey(c, key) == CHOOSE i \in 1..Len(c.items) : c.items[i].key = key

\* Object ids: a filter built by a constructor has oid 0 until it is stored.
OidsOf(h) == UNION {{h[id].items[i].f.oid : i \in 1..Len(h[id].items)} : id \in 1..Len(h)}

FreshOid(h) == IF OidsOf(h) = {} THEN 1
               ELSE 1 + (CHOOSE m \in OidsOf(h) : \A o \in OidsOf(h) : o <= m)

WithOid(h, f) == IF f.oid = 0 THEN [f EXCEPT !.oid = FreshOid(h)] ELSE f

Ok(h) == [err |-> "none", h |-> h]
Fail(e, h) == [err |-> e, h |-> h]

\* A plausible slip in __setitem__: the duplicate check left out, so that a
\* second value silently takes the place of the first.
SetItemShadowing(h, id, key, f) ==
    IF HasKey(h[id], key)
    THEN Ok([h EXCEPT ![id].items[IndexOfKey(h[id], key)].f = WithOid(h, f)])
    ELSE Ok([h EXCEPT ![id].items = Append(@, Entry(key, WithOid(h, f)))])

\* FilterChain.__setitem__
SetItem(h, id, key, f) ==
    IF HasKey(h[id], key) THEN Fail("DuplicateFilterError", h)
    ELSE Only({ Ok([h EXCEPT ![id].items = Append(@, Entry(key, g))]) : g \in {WithOid(h, f)} })

\* SortedDict.__delitem__
DelItem(h, id, key) ==
    IF ~HasKey(h[id], key) THEN Fail("KeyError", h)
    ELSE Ok([h EXCEPT ![id].items = RemoveAt(@, IndexOfKey(h[id], key))])

\* FilterChain.update: self[k] = v for each pair in turn; the first error ends it.
RECURSIVE Update(_, _, _)
Update(h, id, pairs) ==
    IF pairs = <<>> THEN Ok(h)
    ELSE Only({ IF r.err # "none" THEN r ELSE Update(r.h, id, rest) :
                r \in {SetItem(h, id, pairs[1].key, pairs[1].f)}, rest \in {Tail(pairs)} })

\* A plausible slip in copy(): the chain itself handed back, not a new container.
CopyAliased(h, id) == [h |-> h, id |-> id]

\* FilterChain.copy: a new chain on the heap; yields [h, id].
Copy(h, id) ==
    LET clone == [EmptyChain EXCEPT !.ld = h[id].ld, !.base_url = h[id].base_url,
                                    !.schema = h[id].schema]
    IN  Only({ [h |-> Update(h1, Len(h1), h[id].items).h, id |-> Len(h1)] :
               h1 \in {Append(h, clone)} })

\* A plausible slip in the sort: an entry goes in front of the entries of
\* its own priority, so that equal priorities come out in reverse.
RECURSIVE InsertSortedUnstable(_, _)
InsertSortedUnstable(sorted, e) ==
    IF sorted = <<>> THEN <<e>>
    ELSE IF SortValue(sorted[Len(sorted)].f) < SortValue(e.f) THEN Append(sorted, e)
    ELSE Only({ Append(InsertSortedUnstable(front, e), sorted[Len(sorted)]) :
                front \in {SubSeq(sorted, 1, Len(sorted) - 1)} })

\* sorted(items, key=...): a stable insertion sort by _sort_value.
RECURSIVE InsertSorted(_, _)
InsertSorted(sorted, e) ==
    IF sorted = <<>> THEN <<e>>
    ELSE IF SortValue(sorted[Len(sorted)].f) <= SortValue(e.f) THEN Append(sorted, e)
    ELSE Only({ Append(InsertSorted(front, e), sorted[Len(sorted)]) :
                front \in {SubSeq(sorted, 1, Len(sorted) - 1)} })

RECURSIVE SortFrom(_, _, _)
SortFrom(items, i, acc) ==
    IF i > Len(items) THEN acc
    ELSE Only({ SortFrom(items, i + 1, acc1) : acc1 \in {InsertSorted(acc, items[i])} })

\* A plausible slip in _sorted_items: the items returned unsorted.
SortedItemsUnsorted(items) == items

\* FilterChain._sorted_items
SortedItems(items) == SortFrom(items, 1, <<>>)

\* FilterChain.normalized_clone: copy, clear, update with the sorted items.
NormalizedClone(h, id) ==
    Only({ Only({ [h |-> Update(h1, c.id, sorted).h, id |-> c.id] :
                  h1 \in {[c.h EXCEPT ![c.id].items = <<>>]} }) :
           c \in {Copy(h, id)}, sorted \in {SortedItems(h[id].items)} })

(***************************************************************************)
(* add() and replace().  A key is a string or a SchemaField object:        *)
(* [sf, s] with s the string, or the slug of the field.                    *)
(***************************************************************************)
StrKey(s) == [sf |-> FALSE, s |-> s]
SfKey(slug) == [sf |-> TRUE, s |-> slug]

AddFail(e, h, key) == [err |-> e, h |-> h, key |-> key, f |-> NoFilter]

\* calendar.monthrange(y, m)[0]: the weekday of the first day of the month,
\* Monday being 0.
WeekdayOfFirst(y, m) ==
    LET t  == <<0, 3, 2, 5, 0, 3, 5, 1, 4, 6, 2, 4>>
        yy == IF m < 3 THEN y - 1 ELSE y
        sunday0 == (yy + yy \div 4 - yy \div 100 + yy \div 400 + t[m] + 1) % 7
    IN  (sunday0 + 6) % 7

\* The tail of add(): "if _replace and key in self: del self[key]; self[key] = val".
AddStore(h, id, key, val, replace) ==
    Only({ Only({ [err |-> r.err, h |-> r.h, key |-> key, f |-> val] :
                  r \in {SetItem(h1, id, key, val)} }) :
           h1 \in {IF replace /\ HasKey(h[id], key) THEN DelItem(h, id, key).h ELSE h} })

\* The filter add() builds for a SchemaField key given values.
FieldFilter(sf, values) ==
    IF sf.kind = "lookup" THEN LookupFilter(NoQs, values, sf)
    ELSE IF sf.kind = "bool" THEN BoolFilter(NoQs, values, sf)
    ELSE IF sf.kind = "text" THEN TextSearchFilter(NoQs, values, sf)
    ELSE AttributeFilter(NoQs, values, sf)

\* The date branch of add(): the (start, end) pair handed to the date filter.
\* err is "ValueError" when date.replace(day=0) is asked for.
DateArgs(values) ==
    LET two == IF Len(values) = 1 THEN <<values[1], values[1]>> ELSE values
    IN  IF IsStr(two[2]) /\ two[2].s = "month"
        THEN LET y     == YearOf(two[1].n)
                 m     == MonthOf(two[1].n)
                 start == WeekdayOfFirst(y, m)
                 end   == DaysInMonth(y, m)
             IN  IF start = 0 THEN [err |-> "ValueError", args |-> <<>>]
                 ELSE [err |-> "none",
                       args |-> <<DateVal(MkDate(y, m, start)), DateVal(MkDate(y, m, end))>>
                                \o SubSeq(two, 3, Len(two))]
        ELSE [err |-> "none", args |-> two]

\* The filter and the key add() arrives at for a string key: [err, f, key].
ValueFilter(key, values) ==
    LET v == values[1]
        named(r) == [err |-> r.err, f |-> r.f, key |-> "location"]
        keyed(r, k) == [err |-> r.err, f |-> r.f, key |-> k]
    IN  CASE v.t = "Location" -> named(LocationFilterOfObject(NoQs, v))
          [] v.t = "Block" -> named(BlockFilterOfObject(NoQs, Tail(values), v, ""))
          [] v.t = "LocationType" -> named(LocationFilter(NoQs, Tail(values), v.s))
          [] v.t = "Lookup" -> keyed(LookupFilter(NoQs, <<v>>, FieldBySlug("tag")), key)
          [] v.t = "date" ->
                LET d == DateArgs(values)
                IN  IF d.err # "none" THEN [err |-> d.err, f |-> NoFilter, key |-> key]
                    ELSE IF key = "pubdate" THEN keyed(PubDateFilter(NoQs, d.args), "date")
                    ELSE keyed(DateFilter(NoQs, d.args), key)
          [] v.t = "Filter" -> keyed(Built(v.f), key)
          \* any other object is stored as it is
          [] OTHER -> keyed(Built([NoFilter EXCEPT !.kind = "raw", !.args = <<v.s>>]), key)

\* FilterChain.add(key, *values, _replace=replace): [err, h, key], key being the
\* key the filter was stored at ("" when add() did not get that far).
Add(h, id, key, values, replace) ==
    IF key.sf
    THEN IF values = <<>> \/ values = <<Str("")>>
         THEN Only({ AddStore(h, id, key.s, chooser, replace) :
                     chooser \in {AttributeFilter(NoQs, <<>>, FieldBySlug(key.s)).f} })
         ELSE Only({ IF r.err # "none" THEN AddFail(r.err, h, "")
                     ELSE AddStore(h, id, key.s, r.f, replace) :
                     r \in {FieldFilter(FieldBySlug(key.s), values)} })
    ELSE IF values = <<>> THEN AddFail("FilterError", h, "")
    ELSE Only({ IF r.err # "none" THEN AddFail(r.err, h, "")
                ELSE AddStore(h, id, r.key, r.f, replace) :
                r \in {ValueFilter(key.s, values)} })

\* A plausible slip in replace(): _replace=True not passed on to add().
ReplaceNoFlag(h, id, key, values) ==
    Only({ Add(h1, id, key, values, FALSE) :
           h1 \in {IF ~key.sf /\ HasKey(h[id], key.s) THEN DelItem(h, id, key.s).h ELSE h} })

\* FilterChain.replace(key, *values)
Replace(h, id, key, values) ==
    Only({ Add(h1, id, key, values, TRUE) :
           h1 \in {IF ~key.sf /\ HasKey(h[id], key.s) THEN DelItem(h, id, key.s).h ELSE h} })

\* parse_pid(pid): the place and the block radius of a place id.
ParsePid(pid) ==
    CASE pid = "b:1.8" -> [err |-> "none", place |-> Val("Block", "main-st", 0), radius |-> "8"]
      [] pid = "l:1"   -> [err |-> "none", place |-> Val("Location", "12345", 0), radius |-> ""]
      [] OTHER         -> [err |-> "Http404", place |-> Str(""), radius |-> ""]

\* FilterChain.add_by_place_id(pid)
AddByPlaceId(h, id, pid) ==
    LET p == ParsePid(pid)
    IN  IF p.err # "none" THEN AddFail(p.err, h, "")
        ELSE Only({ IF r.err # "none" THEN AddFail(r.err, h, "")
                    ELSE AddStore(h, id, "location", r.f, FALSE) :
                    r \in {IF p.place.t = "Block"
                           THEN BlockFilterOfObject(NoQs, <<Str(p.radius)>>, p.place, "")
                           ELSE LocationFilterOfObject(NoQs, p.place)} })

(***************************************************************************)
(* from_request.  The argument string is modelled after split(';'): a      *)
(* sequence of clauses [name, eq, vals], eq telling whether the clause     *)
(* holds an '=' and vals being the ','-separated values after it.  ctx is  *)
(* the request context [schema, radius], "" standing for None / absent.    *)
(***************************************************************************)
Clause(name, vals) == [name |-> name, eq |-> TRUE, vals |-> vals]
BareClause(name) == [name |-> name, eq |-> FALSE, vals |-> <<>>]

\* argname[3:] of a 'by-...' argname; "" when argname does not start with 'by-'.
FieldSlugOfArgname(name) ==
    CASE name = "by-tag"  -> "tag"
      [] name = "by-open" -> "open"
      [] name = "by-body" -> "body"
      [] name = "by-num"  -> "num"
      [] name = "by-nope" -> "nope"
      [] OTHER            -> ""

\* arg.split('=', 1) and argvalues.split(','), of the text of a URL fragment:
\* the clause that from_request reads the fragment as.
ClauseOfFragment(frag) ==
    Clause(IF Len(frag.name) = 2 THEN frag.name[1] \o frag.name[2] ELSE frag.name[1],
           frag.vals)

\* argname.startswith('streets'), argname.startswith('locations')
IsStreets(name) == name \in {"streets"}
IsLocations(name) == name \in {"locations"}

\* [v for v in argvalues if v]
NonEmpty(vals) == SelectSeq(vals, LAMBDA v : v # "")

FrResult(e, h, reg, key) ==
    [err |-> e, h |-> h, reg |-> reg, key |-> key, url |-> NoRedirect]

\* chain[key] = filter, inside the loop of from_request.
FrStore(h, reg, key, r) ==
    IF r.err # "none" THEN [FrResult(r.err, h, reg, "") EXCEPT !.url = r.url]
    ELSE Only({ FrResult(st.err, st.h, reg, key) : st \in {SetItem(h, 1, key, r.f)} })

\* A plausible slip in the registry lookup: the field read with
\* filter_sf_dict[sf_slug], the entry left in place.
PopKept(reg, slug) == reg

\* filter_sf_dict.pop(sf_slug): the registry without the entry.
Pop(reg, slug) == reg \ {slug}

\* One turn of "while args:" in from_request.
FrClause(h, reg, c, ctx) ==
    LET qs   == SomeQs(NewsitemQs)
        vals == Strs(NonEmpty(c.vals))
        slug == FieldSlugOfArgname(c.name)
    IN  IF c.name = "by-date" THEN FrStore(h, reg, "date", DateFilter(qs, vals))
        ELSE IF c.name = "by-pub-date"
        THEN FrStore(h, reg, "date", PubDateFilter(qs, vals))
        ELSE IF slug # ""
        THEN IF slug \notin reg THEN FrResult("FilterError", h, reg, "")
             ELSE LET sf   == FieldBySlug(slug)
                      reg1 == Pop(reg, slug)
                  IN  IF sf.kind = "lookup"
                      THEN Only({ IF r.err = "none" /\ vals # <<>>
                                  THEN [r EXCEPT !.h[1].ld = Append(@, vals[1].s)]
                                  ELSE r :
                                  r \in {FrStore(h, reg1, sf.name,
                                                 LookupFilter(qs, vals, sf))} })
                      ELSE IF sf.kind = "bool"
                      THEN FrStore(h, reg1, sf.name, BoolFilter(qs, vals, sf))
                      ELSE FrStore(h, reg1, sf.name, TextSearchFilter(qs, vals, sf))
        ELSE IF IsStreets(c.name)
        THEN FrStore(h, reg, "location", BlockFilter(qs, vals, ctx.radius))
        ELSE IF IsLocations(c.name)
        THEN FrStore(h, reg, "location", LocationFilter(qs, vals, ""))
        ELSE FrResult("FilterError", h, reg, "")

RECURSIVE FrLoop(_, _, _, _)
FrLoop(h, reg, clauses, ctx) ==
    IF clauses = <<>> THEN FrResult("none", h, reg, "")
    ELSE Only({ IF r.err # "none" THEN r ELSE FrLoop(r.h, r.reg, rest, ctx) :
                r \in {FrClause(h, reg, clauses[1], ctx)}, rest \in {Tail(clauses)} })

\* FilterChain.__init__(data, schema=schema): [err, h], h being a heap with
\* the new chain alone on it.  The data go in first, the schema filter after.
NewChain(data, schema) ==
    Only({ IF r.err # "none" \/ schema = "" THEN r
           ELSE Only({ [err |-> a.err, h |-> a.h] :
                       a \in {Add(r.h, 1, StrKey("schema"),
                                  <<FilterVal(SchemaFilter(NoQs, schema).f)>>, FALSE)} }) :
           r \in {Update(<<[EmptyChain EXCEPT !.schema = schema]>>, 1, data)} })

\* FilterChain.from_request(request, context, argstring, filter_sf_dict):
\* [err, h, reg, key]; reg is filter_sf_dict afterwards, h holds the chain
\* returned (or built so far, when err is an exception), key is the last key
\* an insertion was tried at.
FromRequest(clauses, ctx, reg) ==
    Only({ IF clauses = <<BareClause("filter")>>
           \* "if argstring and argstring != 'filter'": no filters specified
           THEN FrResult("none", h0, reg, "")
           ELSE IF \E i \in 1..Len(clauses) : ~clauses[i].eq
           THEN FrResult("FilterError", h0, reg, "")
           ELSE FrLoop(h0, reg, named, ctx) :
           h0 \in {NewChain(<<>>, ctx.schema).h},
           named \in {SelectSeq(clauses, LAMBDA c : c.name # "")} })

(***************************************************************************)
(* validate() and apply() of the chain.                                    *)
(***************************************************************************)
\* The filter object oid, in every chain holding it, becomes f.
SetObj(h, oid, f) ==
    [id \in 1..Len(h) |->
        [h[id] EXCEPT !.items = [i \in 1..Len(h[id].items) |->
            IF h[id].items[i].f.oid = oid THEN Entry(h[id].items[i].key, f)
            ELSE h[id].items[i]]]]

RECURSIVE ValidateLoop(_, _, _)
ValidateLoop(items, i, called) ==
    IF i > Len(items) THEN [err |-> "none", need |-> "", called |-> called]
    ELSE Only({ IF r.err # "none" \/ r.need # ""
                THEN [err |-> r.err, need |-> r.need, called |-> c]
                ELSE ValidateLoop(items, i + 1, c) :
                r \in {FilterValidate(items[i].f)}, c \in {Append(called, items[i].f.oid)} })

\* A plausible slip in validate(): the filters walked in sort order.
ValidateSorted(h, id) ==
    Only({ ValidateLoop(items, 1, <<>>) : items \in {SortedItems(h[id].items)} })

\* FilterChain.validate(): [err, need, called]; called lists the filters whose
\* validate() ran, in the order they ran.
Validate(h, id) == ValidateLoop(h[id].items, 1, <<>>)

\* A plausible slip in apply(): the incoming query never handed to the filter.
ThreadDropped(f, queryset) == f

\* "if queryset is not None: filt.qs = queryset"
Thread(f, queryset) == IF queryset.some THEN [f EXCEPT !.qs = queryset.s] ELSE f

ApplyResult(e, h, q, order) == [err |-> e, h |-> h, q |-> q, order |-> order]

RECURSIVE ApplyLoop(_, _, _, _, _)
ApplyLoop(h, cid, i, queryset, order) ==
    IF i > Len(h[cid].items) THEN ApplyResult("none", h, queryset, order)
    ELSE Only({ Only({ IF r.err # "none"
                       THEN ApplyResult(r.err, SetObj(h, f1.oid, f1), NoQs, order)
                       ELSE Only({ ApplyLoop(h1, cid, i + 1, SomeQs(r.f.qs), order1) :
                                   h1 \in {SetObj(h, f1.oid, r.f)},
                                   order1 \in {Append(order, f1.oid)} }) :
                       r \in {FilterApply(f1)} }) :
                f1 \in {Thread(h[cid].items[i].f, queryset)} })

\* FilterChain.apply(queryset): [err, h, q, order]; q is the query returned,
\* order lists the filters applied, in the order they were applied.
Apply(h, id, queryset) ==
    \* sorting reads _sort_value of every stored object
    IF \E i \in 1..Len(h[id].items) : h[id].items[i].f.kind = "raw"
    THEN ApplyResult("AttributeError", h, NoQs, <<>>)
    ELSE Only({ ApplyLoop(nc.h, nc.id, 1, queryset, <<>>) : nc \in {NormalizedClone(h, id)} })

(***************************************************************************)
(* Breadcrumbs and URLs.  A URL fragment 'argname=v1,v2' is the record     *)
(* [name, vals]; a label is a sequence of words, <<>> being ''.            *)
(***************************************************************************)
\* '%02d' % n
Digits == <<"0", "1", "2", "3", "4", "5", "6", "7", "8", "9">>
Pad2(n) == Digits[((n \div 10) % 10) + 1] \o Digits[(n % 10) + 1]

\* date.strftime('%Y-%m-%d')
FormatDate(n) ==
    Pad2(YearOf(n) \div 100) \o Pad2(YearOf(n) % 100) \o "-" \o Pad2(MonthOf(n))
        \o "-" \o Pad2(DayOf(n))

Fragment(name, vals) == [name |-> name, vals |-> vals]

\* filt.url is None
UrlIsNone(f) == f.kind \in {"schema", "raw"} \/ (f.kind = "block" /\ ~f.bound)

\* filt.url
FilterUrl(f) ==
    CASE f.kind \in {"attr", "bool", "lookup"} -> Fragment(<<"by-", f.sf>>, f.args)
      \* 'by-%s=%s' % (slug, ', '.join(args))
      [] f.kind = "text" -> Fragment(<<"by-", f.sf>>, f.args)
      [] f.kind = "date" -> Fragment(<<"by-date">>, <<FormatDate(f.lo), FormatDate(f.hi)>>)
      [] f.kind = "pubdate" ->
            Fragment(<<"by-pub-date">>, <<FormatDate(f.lo), FormatDate(f.hi)>>)
      \* the location slug only enters the URL in _update_location
      [] f.kind = "location" ->
            Fragment(<<"locations">>, IF f.bound THEN f.args ELSE <<f.args[1]>>)
      [] f.kind = "block" -> Fragment(<<"streets">>, Tail(f.args))
      [] OTHER -> Fragment(<<>>, <<>>)

\* "short_value or value or label" is None
LabelIsNone(f) == f.kind = "schema" \/ (f.kind = "block" /\ ~f.bound)

\* getattr(filt, 'short_value', '') or getattr(filt, 'value', '') or
\* getattr(filt, 'label', ''), for a filter whose label is not None.
FilterLabel(f) ==
    CASE f.kind = "attr" -> <<FieldBySlug(f.sf).name>>
      [] f.kind = "text" -> f.args
      [] f.kind = "bool" ->
            IF f.bound THEN <<f.args[1]>>
            ELSE IF f.got THEN <<FieldBySlug(f.sf).name>>
            ELSE <<"By whether they", FieldBySlug(f.sf).name>>
      [] f.kind = "lookup" -> IF f.got THEN <<f.args[1]>> ELSE <<FieldBySlug(f.sf).name>>
      [] f.kind = "location" -> IF f.bound THEN <<f.args[2]>> ELSE <<"Choose", f.args[1]>>
      [] f.kind = "block" -> <<f.args[4], "blocks around", f.args[2]>>
      [] f.kind \in {"date", "pubdate"} ->
            IF f.lo = f.hi THEN <<FormatDate(f.lo)>>
            ELSE <<FormatDate(f.lo), "-", FormatDate(f.hi)>>
      [] OTHER -> <<>>

\* label.title()
Title(label) == IF label = <<>> THEN <<>> ELSE <<"title">> \o label

\* An optional string argument: None, or the string s.
None == [some |-> FALSE, s |-> ""]
Some(s) == [some |-> TRUE, s |-> s]

\* A plausible slip in the removals: the try around the whole loop, so that
\* the first missing key ends the removals.
RECURSIVE RemoveStopsAtMissing(_, _, _)
RemoveStopsAtMissing(h, id, removals) ==
    IF removals = <<>> THEN h
    ELSE Only({ IF r.err # "none" THEN h ELSE RemoveStopsAtMissing(r.h, id, rest) :
                r \in {DelItem(h, id, removals[1])}, rest \in {Tail(removals)} })

\* "for key in removals: try: del clone[key] except KeyError: logger.warn(...)"
RECURSIVE Remove(_, _, _)
Remove(h, id, removals) ==
    IF removals = <<>> THEN h
    ELSE Only({ Remove(h1, id, rest) :
                h1 \in {DelItem(h, id, removals[1]).h}, rest \in {Tail(removals)} })

\* "for key, values in additions: clone.replace(key, *values)"
RECURSIVE Augment(_, _, _)
Augment(h, id, additions) ==
    IF additions = <<>> THEN Ok(h)
    ELSE Only({ IF r.err # "none" THEN Fail(r.err, r.h) ELSE Augment(r.h, id, rest) :
                r \in {Replace(h, id, additions[1].key, additions[1].values)},
                rest \in {Tail(additions)} })

\* A plausible slip in the loop: the URL of a crumb made of the filter's own
\* fragment, not of the running list.
RECURSIVE CrumbsOwnFragment(_, _, _, _, _, _)
CrumbsOwnFragment(items, i, params, crumbs, stop_at, base) ==
    IF i > Len(items) THEN crumbs
    ELSE LET f == items[i].f
         IN  IF LabelIsNone(f)
             THEN CrumbsOwnFragment(items, i + 1, params, crumbs, stop_at, base)
             ELSE LET emit == Title(FilterLabel(f)) # <<>> /\ ~UrlIsNone(f)
                  IN  Only({ IF stop_at.some /\ items[i].key = stop_at.s THEN cs
                             ELSE CrumbsOwnFragment(items, i + 1, params, cs, stop_at, base) :
                             cs \in {IF emit
                                     THEN Append(crumbs,
                                                 [label |-> Title(FilterLabel(f)),
                                                  base |-> base,
                                                  params |-> <<FilterUrl(f)>>,
                                                  oid |-> f.oid])
                                     ELSE crumbs} })

\* The loop over clone.items(): the crumbs [label, base, params, oid] in order.
RECURSIVE Crumbs(_, _, _, _, _, _)
Crumbs(items, i, params, crumbs, stop_at, base) ==
    IF i > Len(items) THEN crumbs
    ELSE LET f == items[i].f
         IN  IF LabelIsNone(f)
             THEN Crumbs(items, i + 1, params, crumbs, stop_at, base)
             ELSE LET emit == Title(FilterLabel(f)) # <<>> /\ ~UrlIsNone(f)
                  IN  Only({ Only({ IF stop_at.some /\ items[i].key = stop_at.s THEN cs
                                    ELSE Crumbs(items, i + 1, ps, cs, stop_at, base) :
                                    cs \in {IF emit
                                            THEN Append(crumbs,
                                                        [label |-> Title(FilterLabel(f)),
                                                         base |-> base, params |-> ps,
                                                         oid |-> f.oid])
                                            ELSE crumbs} }) :
                             ps \in {IF emit THEN Append(params, FilterUrl(f))
                                     ELSE params} })

\* FilterChain.make_breadcrumbs(additions, removals, stop_at, base_url):
\* [err, h, crumbs].
MakeBreadcrumbs(h, id, additions, removals, stop_at, base_url) ==
    LET base == IF base_url.some THEN base_url.s ELSE h[id].base_url
    IN  Only({ Only({ Only({ IF r.err # "none"
                             THEN [err |-> r.err, h |-> r.h, crumbs |-> <<>>]
                             ELSE Only({ [err |-> "none", h |-> r.h,
                                          crumbs |-> Crumbs(items, 1, <<>>, <<>>,
                                                            stop_at, base)] :
                                         items \in {r.h[c.id].items} }) :
                             r \in {Augment(h1, c.id, additions)} }) :
                      h1 \in {Remove(c.h, c.id, removals)} }) :
               c \in {Copy(h, id)} })

\* A URL: None, or base_url + ';'.join(params) + '/'.
NoUrl == [none |-> TRUE, base |-> "", params |-> <<>>]
Url(base, params) == [none |-> FALSE, base |-> base, params |-> params]

\* FilterChain.make_urls: [err, h, urls].
MakeUrls(h, id, additions, removals, stop_at, base_url) ==
    Only({ [err |-> r.err, h |-> r.h,
            urls |-> [i \in 1..Len(r.crumbs) |-> Url(r.crumbs[i].base, r.crumbs[i].params)]] :
           r \in {MakeBreadcrumbs(h, id, additions, removals, stop_at, base_url)} })

\* FilterChain.make_url: [err, h, url]; the base_url passed (None when none
\* was) is what an empty list of crumbs yields.
MakeUrl(h, id, additions, removals, stop_at, base_url) ==
    Only({ [err |-> r.err, h |-> r.h,
            url |-> IF r.err # "none" THEN NoUrl
                    ELSE IF r.crumbs # <<>>
                    THEN Url(r.crumbs[Len(r.crumbs)].base, r.crumbs[Len(r.crumbs)].params)
                    ELSE IF base_url.some THEN Url(base_url.s, <<>>)
                    ELSE NoUrl] :
           r \in {MakeBreadcrumbs(h, id, additions, removals, stop_at, base_url)} })

(***************************************************************************)
(* The state machine.  heap holds the live chains: heap[1] is the chain of *)
(* the request; copyRef names the chain that a copy() of it returned to    *)
(* the caller (0 before any copy).  registry is filter_sf_dict, the field  *)
(* registry of the caller.  last is the call just made, through which of   *)
(* the caller's two references ("chain", "copy") it was made, and what it  *)
(* returned or raised; the caller takes the result (Return) before the     *)
(* next call.                                                              *)
(***************************************************************************)
Idle == [op |-> "idle", via |-> "", tgt |-> 0, err |-> "none",
         \* the key passed, the key the filter was stored at, whether that key
         \* was in the chain before the call, and the filter stored
         given |-> [sf |-> FALSE, s |-> ""], key |-> "", had |-> FALSE, f |-> NoFilter,
         \* the clauses parsed; the keys of the pairs passed, or the removals
         clauses |-> <<>>, names |-> <<>>,
         \* the context passed to from_request; the redirect URL of the error
         ctx |-> [schema |-> "", radius |-> ""], redirect |-> NoRedirect,
         \* the additions, stop_at and base_url passed; for add() and replace(),
         \* the one (key, values) pair passed
         adds |-> <<>>, stop |-> [some |-> FALSE, s |-> ""],
         base |-> [some |-> FALSE, s |-> ""],
         \* the query passed and the query returned
         qin |-> NoQs, q |-> NoQs,
         \* the filters applied or validated, in order; what validate() asks for
         order |-> <<>>, need |-> "",
         \* the items of the clone returned; the breadcrumbs returned
         out |-> <<>>, crumbs |-> <<>>,
         \* the URLs returned by make_urls; the URL returned by make_url
         urls |-> <<>>, url |-> NoUrl]

\* Object ids are renumbered in order of appearance, so that two heaps that
\* differ only in the ids handed out are one state.
OidSeq(h) ==
    IF Len(h) = 0 THEN <<>>
    ELSE IF Len(h) = 1 THEN [i \in 1..Len(h[1].items) |-> h[1].items[i].f.oid]
    ELSE [i \in 1..Len(h[1].items) |-> h[1].items[i].f.oid]
         \o [i \in 1..Len(h[2].items) |-> h[2].items[i].f.oid]

Rank(seq, oid) ==
    LET first == CHOOSE i \in 1..Len(seq) : seq[i] = oid /\ \A j \in 1..(i - 1) : seq[j] # oid
    IN  Cardinality({seq[j] : j \in 1..first})

Canon(h) ==
    Only({ [id \in 1..Len(h) |->
              [h[id] EXCEPT !.items = [i \in 1..Len(h[id].items) |->
                  [h[id].items[i] EXCEPT !.f.oid = Rank(seq, h[id].items[i].f.oid)]]]] :
           seq \in {OidSeq(h)} })

\* The chain a reference of the caller names.
Target(via) == IF via = "chain" THEN 1 ELSE copyRef

\* The chains the caller still holds after a call: the request's chain and
\* its copy; the clones a call made for itself are dropped.
Roots == IF copyRef > 1 THEN 2 ELSE 1
Keep(h) == Only({ Canon(roots) : roots \in {SubSeq(h, 1, Roots)} })

Live(via) == heap # <<>> /\ (via = "copy" => copyRef # 0)
Ready == last.op = "idle"
\* No chain yet: the request is about to build one.
Fresh == Ready /\ heap = <<>>
Fits(c) == Len(c.items) <= MaxLen

Called(op, via) == [Idle EXCEPT !.op = op, !.via = via, !.tgt = Target(via)]

Init ==
    /\ heap = <<>>
    /\ copyRef = 0
    /\ registry = FieldSlugs
    /\ last = Idle

\* The caller takes the result of the call.
Return ==
    /\ ~Ready
    /\ last' = Idle
    /\ UNCHANGED <<heap, copyRef, registry>>

\* chain = FilterChain.from_request(request, context, argstring, registry)
DoFromRequest(clauses, ctx) ==
    /\ Fresh
    /\ \E r \in {FromRequest(clauses, ctx, registry)} :
           /\ Fits(r.h[1])
           /\ heap' = IF r.err = "none" THEN Canon(r.h) ELSE <<>>
           /\ registry' = r.reg
           /\ last' = [Idle EXCEPT !.op = "from_request", !.via = "chain", !.tgt = 1,
                                   !.err = r.err, !.key = r.key, !.clauses = clauses,
                                   !.ctx = ctx, !.redirect = r.url]
    /\ UNCHANGED copyRef

\* chain[key] = f
DoSetItem(via, key, f) ==
    /\ Ready /\ Live(via)
    /\ \E r \in {SetItem(heap, Target(via), key, f)} :
           /\ Fits(r.h[Target(via)])
           /\ heap' = Keep(r.h)
           /\ last' = [Called("setitem", via) EXCEPT !.err = r.err, !.key = key,
                           !.given = StrKey(key), !.had = HasKey(heap[Target(via)], key),
                           !.f = f]
    /\ UNCHANGED <<copyRef, registry>>

\* chain.update(pairs)
DoUpdate(via, pairs) ==
    /\ Ready /\ Live(via)
    /\ \E r \in {Update(heap, Target(via), pairs)} :
           /\ Fits(r.h[Target(via)])
           /\ heap' = Keep(r.h)
           /\ last' = [Called("update", via) EXCEPT !.err = r.err,
                           !.names = [i \in 1..Len(pairs) |-> pairs[i].key]]
    /\ UNCHANGED <<copyRef, registry>>

\* del chain[key]
DoDel(via, key) ==
    /\ Ready /\ Live(via)
    /\ \E r \in {DelItem(heap, Target(via), key)} :
           /\ heap' = Keep(r.h)
           /\ last' = [Called("del", via) EXCEPT !.err = r.err, !.key = key]
    /\ UNCHANGED <<copyRef, registry>>

\* chain.add(key, *values)
DoAdd(via, key, values) ==
    /\ Ready /\ Live(via)
    /\ \E r \in {Add(heap, Target(via), key, values, FALSE)} :
           /\ Fits(r.h[Target(via)])
           /\ heap' = Keep(r.h)
           /\ last' = [Called("add", via) EXCEPT !.err = r.err, !.key = r.key,
                           !.given = key, !.f = r.f,
                           !.adds = <<[key |-> key, values |-> values]>>,
                           !.had = HasKey(heap[Target(via)], r.key)]
    /\ UNCHANGED <<copyRef, registry>>

\* chain.replace(key, *values)
DoReplace(via, key, values) ==
    /\ Ready /\ Live(via)
    /\ \E r \in {Replace(heap, Target(via), key, values)} :
           /\ Fits(r.h[Target(via)])
           /\ heap' = Keep(r.h)
           /\ last' = [Called("replace", via) EXCEPT !.err = r.err, !.key = r.key,
                           !.given = key, !.f = r.f,
                           !.adds = <<[key |-> key, values |-> values]>>,
                           !.had = HasKey(heap[Target(via)], r.key)]
    /\ UNCHANGED <<copyRef, registry>>

\* chain.add_by_place_id(pid)
DoAddByPlaceId(via, pid) ==
    /\ Ready /\ Live(via)
    /\ \E r \in {AddByPlaceId(heap, Target(via), pid)} :
           /\ Fits(r.h[Target(via)])
           /\ heap' = Keep(r.h)
           /\ last' = [Called("add_by_place_id", via) EXCEPT !.err = r.err, !.key = r.key,
                           !.given = StrKey(pid), !.f = r.f,
                           !.had = HasKey(heap[Target(via)], r.key)]
    /\ UNCHANGED <<copyRef, registry>>

\* copy = chain.copy(): the caller keeps the chain returned (and lets go of
\* an earlier copy).
DoCopy ==
    /\ Ready /\ Live("chain")
    /\ \E c \in {Copy(<<heap[1]>>, 1)} :
           /\ heap' = Canon(c.h)
           /\ copyRef' = c.id
           /\ last' = [Idle EXCEPT !.op = "copy", !.via = "chain", !.tgt = 1]
    /\ UNCHANGED registry

\* chain.normalized_clone(); the caller looks at the clone and drops it.
DoNormalizedClone(via) ==
    /\ Ready /\ Live(via)
    /\ \A i \in 1..Len(heap[Target(via)].items) : heap[Target(via)].items[i].f.kind # "raw"
    /\ \E c \in {NormalizedClone(heap, Target(via))} :
           /\ heap' = Keep(c.h)
           /\ last' = [Called("normalized_clone", via) EXCEPT !.out = c.h[c.id].items]
    /\ UNCHANGED <<copyRef, registry>>

\* chain.validate()
DoValidate(via) ==
    /\ Ready /\ Live(via)
    /\ \E r \in {Validate(heap, Target(via))} :
           last' = [Called("validate", via) EXCEPT !.err = r.err, !.need = r.need,
                                                   !.order = r.called]
    /\ UNCHANGED <<heap, copyRef, registry>>

\* chain.apply(queryset)
DoApply(via, queryset) ==
    /\ Ready /\ Live(via)
    /\ \E r \in {Apply(heap, Target(via), queryset)} :
           /\ heap' = Keep(r.h)
           /\ last' = [Called("apply", via) EXCEPT !.err = r.err, !.qin = queryset,
                                                !.q = r.q, !.order = r.order]
    /\ UNCHANGED <<copyRef, registry>>

\* chain.make_breadcrumbs(additions, removals, stop_at, base_url)
DoMakeBreadcrumbs(via, additions, removals, stop_at, base_url) ==
    /\ Ready /\ Live(via)
    /\ \E r \in {MakeBreadcrumbs(heap, Target(via), additions, removals, stop_at, base_url)} :
           /\ heap' = Keep(r.h)
           /\ last' = [Called("make_breadcrumbs", via) EXCEPT !.err = r.err,
                           !.names = removals, !.adds = additions,
                           !.stop = stop_at, !.base = base_url,
                           !.crumbs = r.crumbs]
    /\ UNCHANGED <<copyRef, registry>>

\* chain.make_urls(additions, removals, stop_at, base_url)
DoMakeUrls(via, additions, removals, stop_at, base_url) ==
    /\ Ready /\ Live(via)
    /\ \E r \in {MakeUrls(heap, Target(via), additions, removals, stop_at, base_url)} :
           /\ heap' = Keep(r.h)
           /\ last' = [Called("make_urls", via) EXCEPT !.err = r.err,
                           !.names = removals, !.adds = additions,
                           !.stop = stop_at, !.base = base_url,
                           !.urls = r.urls]
    /\ UNCHANGED <<copyRef, registry>>

\* chain.make_url(additions, removals, stop_at, base_url)
DoMakeUrl(via, additions, removals, stop_at, base_url) ==
    /\ Ready /\ Live(via)
    /\ \E r \in {MakeUrl(heap, Target(via), additions, removals, stop_at, base_url)} :
           /\ heap' = Keep(r.h)
           /\ last' = [Called("make_url", via) EXCEPT !.err = r.err,
                           !.names = removals, !.adds = additions,
                           !.stop = stop_at, !.base = base_url,
                           !.url = r.url]
    /\ UNCHANGED <<copyRef, registry>>

\* chain = FilterChain(data, schema=schema)
DoNew(data, schema) ==
    /\ Fresh
    /\ \E r \in {NewChain(data, schema)} :
           /\ heap' = IF r.err = "none" THEN Canon(r.h) ELSE <<>>
           /\ last' = [Idle EXCEPT !.op = "new", !.via = "chain", !.tgt = 1, !.err = r.err,
                                   !.names = [i \in 1..Len(data) |-> data[i].key]]
    /\ UNCHANGED <<copyRef, registry>>

\* The caller lets go of the chain and keeps the field registry it passed to
\* from_request.
DropChain ==
    /\ Ready /\ heap # <<>>
    /\ registry # FieldSlugs
    /\ heap' = <<>>
    /\ copyRef' = 0
    /\ UNCHANGED <<registry, last>>

\* The request ends: its chains and its field registry are dropped, and the
\* next request fetches the schema fields anew.
EndRequest ==
    /\ Ready /\ heap # <<>>
    /\ heap' = <<>>
    /\ copyRef' = 0
    /\ registry' = FieldSlugs
    /\ UNCHANGED last

(***************************************************************************)
(* The calls the caller makes: small sets of arguments for each.           *)
(***************************************************************************)
AddArg(key, values) == [key |-> key, values |-> values]

Contexts == {[schema |-> sch, radius |-> ""] : sch \in {"", CtxSchema}}

\* Filter objects the caller builds itself and stores by key.
OneDay == DateFilter(NoQs, <<DateVal(20200115), DateVal(20200115)>>).f
FireSearch == TextSearchFilter(NoQs, <<Str("fire")>>, FieldBySlug("body")).f

(***************************************************************************)
(* Spec: a request that parses its chain and then inserts, replaces and    *)
(* deletes filters.                                                        *)
(***************************************************************************)
ClauseVocab ==
    { Clause("by-date", <<"2020-01-15", "2020-01-31">>),
      Clause("by-pub-date", <<"2020-01-15", "2020-01-15">>),
      Clause("by-date", <<"xyz">>),
      Clause("by-tag", <<"theft">>),
      Clause("streets", <<"main-st", "100-199", "8-blocks">>),
      Clause("locations", <<"zip", "12345">>),
      BareClause("by-date") }

ArgStrings == SeqsUpTo(ClauseVocab, MaxClauses)

StoreKeys == {"date", "x"}
StoreFilters == {FireSearch}

UpdateArgs ==
    { <<Entry("x", FireSearch), Entry("date", FireSearch)>>,
      <<Entry("date", FireSearch), Entry("x", FireSearch)>> }

DelKeys == {"date", "location"}

AddArgs ==
    { AddArg(SfKey("tag"), <<>>),
      AddArg(SfKey("open"), <<Str("no")>>),
      AddArg(StrKey("date"), <<DateVal(20200131)>>),
      AddArg(StrKey("pubdate"), <<DateVal(20200115), DateVal(20200131)>>),
      AddArg(StrKey("start"), <<DateVal(20200115)>>),
      AddArg(StrKey("x"), <<Val("Location", "67890", 0)>>),
      AddArg(StrKey("location"), <<Val("Block", "elm-st", 0), Str("8-blocks")>>),
      AddArg(StrKey("x"), <<>>) }

PlaceIds == {"b:1.8", "l:1", "junk"}

Next ==
    \/ Fresh /\ \E a \in ArgStrings, ctx \in Contexts : DoFromRequest(a, ctx)
    \/ EndRequest
    \/ Return
    \/ \E k \in StoreKeys, f \in StoreFilters : DoSetItem("chain", k, f)
    \/ \E ps \in UpdateArgs : DoUpdate("chain", ps)
    \/ \E k \in DelKeys : DoDel("chain", k)
    \/ \E a \in AddArgs : DoAdd("chain", a.key, a.values)
    \/ \E a \in AddArgs : DoReplace("chain", a.key, a.values)
    \/ \E pid \in PlaceIds : DoAddByPlaceId("chain", pid)

Spec == Init /\ [][Next]_vars

(***************************************************************************)
(* Properties of insertion and replacement, checked under Spec.            *)
(***************************************************************************)
\* The items of a chain without their object ids.
Plain(items) == [i \in 1..Len(items) |-> [items[i] EXCEPT !.f.oid = 0]]

DateClause(c) == c.name \in {"by-date", "by-pub-date"}
PlaceClause(c) == IsStreets(c.name) \/ IsLocations(c.name)

\* The clause parses when it is the whole argument string, the field
\* registry being reg.
ParsesAlone(c, reg) ==
    FromRequest(<<c>>, [schema |-> "", radius |-> ""], reg).err = "none"

\* Two clauses both map to 'date', or both to 'location'.
SecondOfAKind(cs) ==
    \E i, j \in 1..Len(cs) :
        /\ i < j
        /\ \/ DateClause(cs[i]) /\ DateClause(cs[j])
           \/ PlaceClause(cs[i]) /\ PlaceClause(cs[j])

\* No field of the schema is named by two clauses.
FieldsOnce(cs) ==
    \A i, j \in 1..Len(cs) :
        (i < j /\ FieldSlugOfArgname(cs[i].name) # "")
            => FieldSlugOfArgname(cs[i].name) # FieldSlugOfArgname(cs[j].name)

C1_Step ==
    /\ (last'.op \in {"setitem", "add"} /\ last'.had)
            => (last'.err = "DuplicateFilterError" /\ heap' = heap)
    /\ (last'.op \in {"setitem", "add"} /\ last'.err = "DuplicateFilterError")
            => last'.had
    /\ last'.op = "update" =>
            LET pre  == heap[last'.tgt].items
                post == heap'[last'.tgt].items
                ns   == last'.names
                dup(i) == \/ ns[i] \in KeySet(heap[last'.tgt])
                          \/ \E j \in 1..(i - 1) : ns[j] = ns[i]
            IN  /\ (\E i \in 1..Len(ns) : dup(i)) <=> last'.err = "DuplicateFilterError"
                /\ SubSeq(post, 1, Len(pre)) = pre
                /\ (ns # <<>> /\ dup(1)) => heap' = heap
    /\ (/\ last'.op = "from_request"
        /\ \A i \in 1..Len(last'.clauses) : ParsesAlone(last'.clauses[i], registry)
        /\ FieldsOnce(last'.clauses)
        /\ SecondOfAKind(last'.clauses))
            => (last'.err = "DuplicateFilterError" /\ heap' = <<>>)

\* C1: storing a filter under a key the chain already holds (by chain[key] = f,
\* update(), add(), or a second clause of from_request that maps to the same
\* key) raises DuplicateFilterError and leaves the chain as it was; a key the
\* chain does not hold never raises it.
C1_DuplicateKeyRaises == [][C1_Step]_vars

\* add('pubdate', ...) on a chain that holds a DateFilter under 'date' was refused.
C1_Witness ==
    /\ last.op = "add" /\ last.given = StrKey("pubdate") /\ last.key = "date"
    /\ last.had /\ last.err = "DuplicateFilterError"
    /\ HasKey(heap[1], "date")
    /\ heap[1].items[IndexOfKey(heap[1], "date")].f.kind = "date"

\* The date and pubdate filters of a chain.
DateKinds(c) == {i \in 1..Len(c.items) : c.items[i].f.kind \in {"date", "pubdate"}}

\* C2: whatever keys from_request, add() and replace() are passed, a chain
\* holds at most one filter of the date kind (DateFilter or PubDateFilter).
C2_AtMostOneDateFilter ==
    \A id \in 1..Len(heap) : Cardinality(DateKinds(heap[id])) <= 1

C8_Step ==
    last'.op = "replace" =>
        /\ last'.err # "DuplicateFilterError"
        /\ last'.err = "none" =>
            LET pre  == heap[last'.tgt].items
                post == heap'[last'.tgt].items
                k    == last'.key
                gone == {k} \cup (IF last'.given.sf THEN {} ELSE {last'.given.s})
            IN  /\ post # <<>>
                /\ post[Len(post)].key = k
                /\ Cardinality({i \in 1..Len(post) : post[i].key = k}) = 1
                /\ Plain(<<post[Len(post)]>>)[1].f = [last'.f EXCEPT !.oid = 0]
                /\ Plain(SubSeq(post, 1, Len(post) - 1))
                       = Plain(SelectSeq(pre, LAMBDA e : e.key \notin gone))

\* C8: replace(key, *values) never raises DuplicateFilterError, whether or not
\* the key it stores at is the key it was passed; when it returns, the chain
\* holds one entry under the key the new filter is stored at, that entry is
\* the new filter, it is last, and the other entries keep their order.
C8_ReplaceStoresLast == [][C8_Step]_vars

\* replace('pubdate', ...) took the place of the filter stored under 'date'.
C8_Witness ==
    /\ last.op = "replace" /\ last.err = "none"
    /\ last.given = StrKey("pubdate") /\ last.key = "date" /\ last.had
    /\ Len(heap[1].items) >= 2
    /\ heap[1].items[Len(heap[1].items)].f.kind = "pubdate"

\* C9: add_by_place_id on a chain that holds a 'location' filter returns and
\* leaves the location or block filter of the place id under 'location'.
C9_PlaceIdReplacesLocation ==
    (last.op = "add_by_place_id" /\ last.had) =>
        /\ last.err = "none"
        /\ HasKey(heap[1], "location")
        /\ Plain(<<heap[1].items[IndexOfKey(heap[1], "location")]>>)[1].f
               = [last.f EXCEPT !.oid = 0]

(***************************************************************************)
(* SpecRead: a chain built from (key, filter) pairs, then validated,       *)
(* normalized, applied and shown as breadcrumbs and URLs.                  *)
(***************************************************************************)
MaxData == 4

PubDay == PubDateFilter(NoQs, <<DateVal(20200115), DateVal(20200131)>>).f
CrimeSchema == SchemaFilter(NoQs, CtxSchema).f
ZipLocation == LocationFilter(NoQs, Strs(<<"zip", "12345">>), "").f
ZipChooser == LocationFilter(NoQs, Strs(<<"zip">>), "").f
OpenChooser == BoolFilter(NoQs, <<>>, FieldBySlug("open")).f
NumIs7 == AttributeFilter(NoQs, <<Str("7")>>, FieldBySlug("num")).f

DataVocab ==
    { Entry("schema", CrimeSchema), Entry("date", OneDay), Entry("pub", PubDay),
      Entry("body", FireSearch), Entry("location", ZipLocation),
      Entry("location", ZipChooser), Entry("is_open", OpenChooser),
      Entry("num", NumIs7) }

\* The pair lists a caller passes: no key twice.
PairLists(vocab) ==
    {d \in SeqsUpTo(vocab, MaxData) :
        \A i, j \in 1..Len(d) : i < j => d[i].key # d[j].key}

DataSeqs == PairLists(DataVocab)

CrumbArg(additions, removals, stop_at, base_url) ==
    [additions |-> additions, removals |-> removals, stop_at |-> stop_at,
     base_url |-> base_url]

CrumbArgs ==
    { CrumbArg(<<>>, <<>>, None, None),
      CrumbArg(<<>>, <<"date">>, None, Some("/b/")),
      CrumbArg(<<AddArg(StrKey("date"), <<DateVal(20200131)>>)>>, <<>>, Some("date"), None),
      CrumbArg(<<>>, <<"nokey", "date">>, Some("body"), None),
      CrumbArg(<<>>, <<>>, Some("schema"), None) }

UrlArgs ==
    { CrumbArg(<<>>, <<"body">>, None, None),
      CrumbArg(<<AddArg(StrKey("pubdate"), <<DateVal(20200115)>>)>>, <<>>, None, Some("/b/")) }

ReadQueries == {NoQs, SomeQs({2, 3})}

NextRead ==
    \/ Fresh /\ \E d \in DataSeqs : DoNew(d, "")
    \/ EndRequest
    \/ Return
    \/ DoValidate("chain")
    \/ DoNormalizedClone("chain")
    \/ \E q \in ReadQueries : DoApply("chain", q)
    \/ \E a \in CrumbArgs :
            DoMakeBreadcrumbs("chain", a.additions, a.removals, a.stop_at, a.base_url)
    \/ \E a \in UrlArgs : DoMakeUrls("chain", a.additions, a.removals, a.stop_at, a.base_url)
    \/ \E a \in UrlArgs : DoMakeUrl("chain", a.additions, a.removals, a.stop_at, a.base_url)

SpecRead == Init /\ [][NextRead]_vars

(***************************************************************************)
(* Properties of the calls that only read the chain, checked under         *)
(* SpecRead.                                                               *)
(***************************************************************************)
Priorities(items) == [i \in 1..Len(items) |-> SortValue(items[i].f)]

\* C4: normalized_clone() returns a chain with the keys and the filter objects
\* of the original, nothing lost or added, in nondecreasing sort priority,
\* entries of equal priority in their original relative order.
C4_NormalizedCloneStable ==
    last.op = "normalized_clone" =>
        LET items == heap[last.tgt].items
            out   == last.out
            pos(k) == IndexOfKey(heap[last.tgt], k)
        IN  /\ Len(out) = Len(items)
            /\ {out[i].key : i \in 1..Len(out)} = KeySet(heap[last.tgt])
            /\ \A i \in 1..Len(out) : out[i] = items[pos(out[i].key)]
            /\ \A i, j \in 1..Len(out) :
                    i < j => \/ SortValue(out[i].f) < SortValue(out[j].f)
                             \/ /\ SortValue(out[i].f) = SortValue(out[j].f)
                                /\ pos(out[i].key) < pos(out[j].key)

\* Insertion priorities [1000, 1, -9999, 200] came out as [-9999, 1, 200, 1000].
C4_Witness ==
    /\ last.op = "normalized_clone"
    /\ Priorities(heap[1].items) = <<1000, 1, -9999, 200>>
    /\ Priorities(last.out) = <<-9999, 1, 200, 1000>>

ReadOps == {"apply", "normalized_clone", "validate", "make_breadcrumbs", "make_urls",
            "make_url"}

C7_Step ==
    last'.op \in ReadOps =>
        /\ Len(heap') = Len(heap)
        /\ KeysOf(heap'[last'.tgt]) = KeysOf(heap[last'.tgt])

\* C7: apply(), normalized_clone(), validate(), make_breadcrumbs(), make_urls()
\* and make_url(), whatever additions, removals and stop_at they are given,
\* leave the keys of the chain they are called on, and their order, as they were.
C7_ReadsKeepKeys == [][C7_Step]_vars

\* make_breadcrumbs(removals=['date']) left 'date' out of the crumbs and in
\* the chain.
C7_Witness ==
    /\ last.op = "make_breadcrumbs" /\ last.err = "none"
    /\ last.names = <<"date">> /\ last.crumbs # <<>>
    /\ HasKey(heap[1], "date")
    /\ \A i \in 1..Len(last.crumbs) :
           last.crumbs[i].oid # heap[1].items[IndexOfKey(heap[1], "date")].f.oid

\* C10: validate() returns what the first filter in insertion order with a
\* non-empty validate() result returns, no later filter being asked; it
\* returns the empty result exactly when every filter's result is empty.
C10_ValidateFirstInOrder ==
    last.op = "validate" =>
        LET items  == heap[last.tgt].items
            res(i) == FilterValidate(items[i].f)
            stops  == {i \in 1..Len(items) : res(i).err # "none" \/ res(i).need # ""}
            first  == CHOOSE i \in stops : \A j \in stops : i <= j
            upto(n) == [i \in 1..n |-> items[i].f.oid]
        IN  IF stops = {}
            THEN last.err = "none" /\ last.need = "" /\ last.order = upto(Len(items))
            ELSE /\ last.err = res(first).err
                 /\ last.need = res(first).need
                 /\ last.order = upto(first)

\* validate() asked for the location first, the chain holding a filter of
\* lower priority after it that also lacks its value.
C10_Witness ==
    /\ last.op = "validate" /\ last.err = "none" /\ last.need = "zip"
    /\ \E i, j \in 1..Len(heap[1].items) :
           /\ i < j
           /\ heap[1].items[i].f.kind = "location" /\ ~heap[1].items[i].f.got
           /\ heap[1].items[j].f.kind = "bool" /\ ~heap[1].items[j].f.got
           /\ last.order = [k \in 1..i |-> heap[1].items[k].f.oid]

\* The working chain of a make_breadcrumbs call: the items of the clone once
\* the removals are deleted and the additions put in.
Working(h, id, additions, removals) ==
    Only({ Only({ r.h[c.id].items :
                  r \in {Augment(Remove(c.h, c.id, removals), c.id, additions)} }) :
           c \in {Copy(h, id)} })

\* The place in items of the filter object oid.
PosOf(items, oid) == CHOOSE i \in 1..Len(items) : items[i].f.oid = oid

\* C12: the breadcrumbs come in the order of the working chain, which is
\* insertion order and not priority order, and the URL of the i-th is the
\* base URL and the fragments of the filters of breadcrumbs 1..i, one each:
\* every URL extends the one before by one fragment.
C12_CrumbsCumulativeInOrder ==
    (last.op = "make_breadcrumbs" /\ last.err = "none") =>
        \E items \in {Working(heap, last.tgt, last.adds, last.names)} :
            LET crumbs == last.crumbs
                base   == IF last.base.some THEN last.base.s ELSE heap[last.tgt].base_url
            IN  /\ \A i \in 1..Len(crumbs) :
                       /\ \E k \in 1..Len(items) : items[k].f.oid = crumbs[i].oid
                       /\ crumbs[i].base = base
                       /\ crumbs[i].params =
                              [j \in 1..i |-> FilterUrl(items[PosOf(items, crumbs[j].oid)].f)]
                /\ \A i, j \in 1..Len(crumbs) :
                       i < j => PosOf(items, crumbs[i].oid) < PosOf(items, crumbs[j].oid)

\* Two breadcrumbs, the first for a filter that sorts after the filter of
\* the second; the second URL is the first with one fragment more.
C12_Witness ==
    /\ last.op = "make_breadcrumbs" /\ last.err = "none"
    /\ last.adds = <<>> /\ last.names = <<>>
    /\ Len(last.crumbs) = 2
    /\ PosOf(heap[1].items, last.crumbs[1].oid) < PosOf(heap[1].items, last.crumbs[2].oid)
    /\ SortValue(heap[1].items[PosOf(heap[1].items, last.crumbs[1].oid)].f)
           > SortValue(heap[1].items[PosOf(heap[1].items, last.crumbs[2].oid)].f)
    /\ Len(last.crumbs[2].params) = 2
    /\ SubSeq(last.crumbs[2].params, 1, 1) = last.crumbs[1].params

\* C13: on a chain of a schema filter, a date filter under 'date' and a
\* location filter, make_breadcrumbs(removals=['date']) returns two
\* breadcrumbs: the schema filter's, then the location filter's.
C13_SchemaAndLocationCrumbs ==
    (/\ last.op = "make_breadcrumbs" /\ last.err = "none"
     /\ last.names = <<"date">> /\ last.adds = <<>> /\ ~last.stop.some
     /\ Len(heap[last.tgt].items) = 3)
        => \A i, j, k \in 1..3 :
               LET items == heap[last.tgt].items
               IN  (/\ items[i].f.kind = "schema"
                    /\ items[j].key = "date" /\ items[j].f.kind \in {"date", "pubdate"}
                    /\ items[k].f.kind = "location"
                    /\ i < k)
                       => /\ Len(last.crumbs) = 2
                          /\ last.crumbs[1].oid = items[i].f.oid
                          /\ last.crumbs[2].oid = items[k].f.oid

\* C14: when stop_at is a key of the working chain, no breadcrumb is for a
\* filter that comes after that key in the working chain.
C14_NothingAfterStopAt ==
    (last.op = "make_breadcrumbs" /\ last.err = "none" /\ last.stop.some) =>
        \E items \in {Working(heap, last.tgt, last.adds, last.names)} :
            \A s \in 1..Len(items) :
                items[s].key = last.stop.s =>
                    \A i \in 1..Len(last.crumbs) : PosOf(items, last.crumbs[i].oid) <= s

\* C15: a removal that names a key the chain does not hold raises nothing,
\* and the call returns what the same call without that key returns.
C15_MissingRemovalIgnored ==
    (/\ last.op = "make_breadcrumbs"
     /\ \E i \in 1..Len(last.names) : ~HasKey(heap[last.tgt], last.names[i]))
        => \E same \in {MakeBreadcrumbs(heap, last.tgt, last.adds,
                                        SelectSeq(last.names,
                                                  LAMBDA k : HasKey(heap[last.tgt], k)),
                                        last.stop, last.base)} :
               /\ last.err = same.err
               /\ last.crumbs = same.crumbs
               /\ last.adds = <<>> => last.err = "none"

\* make_breadcrumbs(removals=['nokey', 'date']) returned breadcrumbs, none of
\* them for the filter under 'date'.
C15_Witness ==
    /\ last.op = "make_breadcrumbs" /\ last.err = "none"
    /\ last.names = <<"nokey", "date">>
    /\ HasKey(heap[1], "date") /\ ~HasKey(heap[1], "nokey")
    /\ last.crumbs # <<>>
    /\ \A i \in 1..Len(last.crumbs) :
           last.crumbs[i].oid # heap[1].items[IndexOfKey(heap[1], "date")].f.oid

\* C25: make_url returns the last URL that make_urls returns for the same
\* arguments, and when there is none, the base URL in force: the base_url
\* passed, else the chain's base_url, else the empty string.
C25_MakeUrlLastOrBase ==
    (last.op = "make_url" /\ last.err = "none") =>
        \E r \in {MakeUrls(heap, last.tgt, last.adds, last.names, last.stop, last.base)} :
            IF r.urls # <<>>
            THEN last.url = r.urls[Len(r.urls)]
            ELSE last.url = Url(IF last.base.some THEN last.base.s
                                ELSE heap[last.tgt].base_url, <<>>)

(***************************************************************************)
(* SpecOrder: a chain of filters of every kind, each with its value,       *)
(* applied to a query.                                                     *)
(***************************************************************************)
OpenYes == BoolFilter(NoQs, <<Str("yes")>>, FieldBySlug("open")).f
TheftLookup == LookupFilter(NoQs, <<Str("theft")>>, FieldBySlug("tag")).f
MainStBlock == BlockFilter(NoQs, Strs(<<"main-st", "100-199", "8-blocks">>), "").f

OrderVocab ==
    { Entry("schema", CrimeSchema), Entry("date", OneDay), Entry("pub", PubDay),
      Entry("is_open", OpenYes), Entry("num", NumIs7), Entry("location", ZipLocation),
      Entry("block", MainStBlock), Entry("tag", TheftLookup), Entry("body", FireSearch) }

OrderSeqs == PairLists(OrderVocab)

OrderQueries == {NoQs, SomeQs({1, 3})}

NextOrder ==
    \/ Fresh /\ \E d \in OrderSeqs : DoNew(d, "")
    \/ EndRequest
    \/ Return
    \/ \E q \in OrderQueries : DoApply("chain", q)

SpecOrder == Init /\ [][NextOrder]_vars

\* The place of each kind of filter in the order apply() is to follow.
KindRank(f) ==
    CASE f.kind = "schema" -> 1
      [] f.kind \in {"date", "pubdate"} -> 2
      [] f.kind = "bool" -> 3
      [] f.kind = "attr" -> 4
      [] f.kind \in {"location", "block"} -> 5
      [] f.kind = "lookup" -> 6
      [] f.kind = "text" -> 7

\* C3: apply() applies every filter of the chain once, in nondecreasing
\* priority whatever the insertion order: schema, then date and pub-date,
\* bool attribute, generic attribute, location and block, lookup attribute,
\* text search.
C3_ApplyInPriorityOrder ==
    (last.op = "apply" /\ last.err = "none") =>
        LET items == heap[last.tgt].items
            order == last.order
            filt(o) == (CHOOSE e \in Range(items) : e.f.oid = o).f
        IN  /\ Len(order) = Len(items)
            /\ Range(order) = {items[i].f.oid : i \in 1..Len(items)}
            /\ \A i, j \in 1..Len(order) :
                    i < j => /\ SortValue(filt(order[i])) <= SortValue(filt(order[j]))
                             /\ KindRank(filt(order[i])) <= KindRank(filt(order[j]))
            /\ HasKey(heap[last.tgt], "schema") => filt(order[1]).kind = "schema"

\* A chain of a text search, a lookup, a bool and the schema, inserted in that
\* order, was applied schema first and text search last.
C3_Witness ==
    /\ last.op = "apply" /\ last.err = "none"
    /\ KeysOf(heap[1]) = <<"body", "tag", "is_open", "schema">>
    /\ last.order = <<4, 3, 2, 1>>

\* The filter object oid of a chain.
FilterOf(c, oid) == (CHOOSE e \in Range(c.items) : e.f.oid = oid).f

\* The query that comes out of the k-th of the filters fs when each narrows
\* what the one before produced, the first narrowing the query qin or, qin
\* being None, its own.
RECURSIVE Threaded(_, _, _)
Threaded(fs, qin, k) ==
    IF k = 0 THEN qin
    ELSE Only({ SomeQs(Narrow(IF prev.some THEN prev.s ELSE fs[k].qs, fs[k])) :
                prev \in {Threaded(fs, qin, k - 1)} })

C24_Step ==
    (last'.op = "apply" /\ last'.err = "none") =>
        LET c     == heap[last'.tgt]
            order == last'.order
            fs    == [k \in 1..Len(order) |-> FilterOf(c, order[k])]
        IN  /\ order = [k \in 1..Len(c.items) |-> SortedItems(c.items)[k].f.oid]
            /\ last'.q = Threaded(fs, last'.qin, Len(order))
            /\ c.items = <<>> => last'.q = last'.qin
            /\ \A k \in 1..Len(order) :
                   SomeQs(FilterOf(heap'[last'.tgt], order[k]).qs)
                       = Threaded(fs, last'.qin, k)

\* C24: apply(q) hands q (its own query, when q is None) to the first filter
\* in normalized order and to every later filter the query the one before
\* produced, and returns what the last produced; on a chain without filters
\* it returns q as it was passed.
C24_ApplyThreadsQuery == [][C24_Step]_vars

\* apply() without a query on two filters: the first narrowed its own query
\* of every item, the second what the first left, and that was returned.
C24_Witness ==
    /\ last.op = "apply" /\ last.err = "none" /\ ~last.qin.some
    /\ Len(last.order) = 2
    /\ FilterOf(heap[1], last.order[1]).qs # ItemIds
    /\ FilterOf(heap[1], last.order[2]).qs # FilterOf(heap[1], last.order[1]).qs
    /\ FilterOf(heap[1], last.order[2]).qs
           = Narrow(FilterOf(heap[1], last.order[1]).qs, FilterOf(heap[1], last.order[2]))
    /\ last.q = SomeQs(FilterOf(heap[1], last.order[2]).qs)
    /\ last.q.s # {}

(***************************************************************************)
(* SpecApply: the chain of a request's argument string, applied to a       *)
(* query.                                                                  *)
(***************************************************************************)
ApplyClauses ==
    { Clause("by-date", <<"2020-01-15", "2020-01-31">>),
      Clause("by-pub-date", <<"2020-01-15", "2020-01-15">>),
      Clause("by-tag", <<"theft">>),
      Clause("by-open", <<"no">>),
      Clause("by-body", <<"fire">>),
      Clause("locations", <<"zip", "12345">>),
      Clause("locations", <<"zip", "99999">>),
      Clause("streets", <<"main-st", "100-199", "8-blocks">>) }

ApplyStrings == SeqsUpTo(ApplyClauses, MaxClauses)

ApplyQueries == {NoQs} \cup {SomeQs(q) : q \in SUBSET ItemIds}

NextApply ==
    \/ Fresh /\ \E a \in ApplyStrings, ctx \in Contexts : DoFromRequest(a, ctx)
    \/ EndRequest
    \/ Return
    \/ \E q \in ApplyQueries : DoApply("chain", q)

SpecApply == Init /\ [][NextApply]_vars

\* What one filter of the chain alone makes of the query passed to apply():
\* of its own query, when None is passed.
Alone(f, qin) == Narrow(IF qin.some THEN qin.s ELSE f.qs, f)

C5_Step ==
    (last'.op = "apply" /\ last'.err = "none") =>
        \A i \in 1..Len(heap[last'.tgt].items) :
            /\ last'.q.some
            /\ last'.q.s \subseteq Alone(heap[last'.tgt].items[i].f, last'.qin)

\* C5: for a chain that from_request built and any query, the items apply()
\* returns are among the items each filter of the chain alone selects from
\* that query.
C5_ApplyNarrows == [][C5_Step]_vars

\* A chain of two filters returned one item of a query of three, each of
\* the two filters alone selecting two.
C5_Witness ==
    /\ last.op = "apply" /\ last.err = "none"
    /\ last.qin = SomeQs(ItemIds)
    /\ Len(heap[1].items) = 2
    /\ Cardinality(last.q.s) = 1
    /\ \A i \in 1..2 : Cardinality(Narrow(ItemIds, heap[1].items[i].f)) = 2

(***************************************************************************)
(* SpecCopy: a chain and a copy of it, each changed through its own        *)
(* reference.                                                              *)
(***************************************************************************)
CopyClauses ==
    { Clause("by-date", <<"2020-01-15", "2020-01-31">>),
      Clause("locations", <<"zip", "12345">>),
      Clause("by-tag", <<"theft">>) }

CopyStrings == SeqsUpTo(CopyClauses, MaxClauses)

CopyAddArgs ==
    { AddArg(StrKey("date"), <<DateVal(20200131)>>),
      AddArg(StrKey("x"), <<Val("Location", "67890", 0)>>),
      AddArg(SfKey("open"), <<Str("no")>>) }

Refs == {"chain", "copy"}

NextCopy ==
    \/ Fresh /\ \E a \in CopyStrings, ctx \in Contexts : DoFromRequest(a, ctx)
    \/ EndRequest
    \/ Return
    \/ DoCopy
    \/ \E via \in Refs, a \in CopyAddArgs : DoAdd(via, a.key, a.values)
    \/ \E via \in Refs, a \in CopyAddArgs : DoReplace(via, a.key, a.values)
    \/ \E via \in Refs, k \in DelKeys : DoDel(via, k)

SpecCopy == Init /\ [][NextCopy]_vars

C6_Step ==
    /\ last'.op = "copy" =>
            /\ copyRef' \in 1..Len(heap')
            /\ KeysOf(heap'[copyRef']) = KeysOf(heap[1])
            /\ KeysOf(heap'[1]) = KeysOf(heap[1])
    /\ (last'.op \in {"add", "replace", "del"} /\ copyRef # 0) =>
            /\ last'.via = "copy" => KeysOf(heap'[1]) = KeysOf(heap[1])
            /\ last'.via = "chain" => KeysOf(heap'[copyRef]) = KeysOf(heap[copyRef])

\* C6: c = chain.copy() has the keys of chain in the same order, and no add,
\* replace or delete on c changes the keys of chain or their order, nor one
\* on chain those of c.
C6_CopyIsIndependent == [][C6_Step]_vars

\* A filter was added to the copy, which now holds a key the chain does not.
C6_Witness ==
    /\ last.op = "add" /\ last.via = "copy" /\ last.err = "none"
    /\ copyRef # 0
    /\ heap[1].items # <<>>
    /\ HasKey(heap[copyRef], last.key)
    /\ ~HasKey(heap[1], last.key)

(***************************************************************************)
(* SpecParse: requests that parse an argument string, well-formed or not,  *)
(* against the field registry, add choosers for schema fields, and         *)
(* validate the chain.  The caller may parse again with the registry it    *)
(* passed before.                                                          *)
(***************************************************************************)
ParseClauses ==
    { Clause("by-date", <<"2020-01-15", "2020-01-31">>),
      Clause("by-date", <<"2020-02-30", "2020-01-31">>),
      Clause("by-tag", <<"theft">>),
      Clause("by-tag", <<"">>),
      Clause("by-tag", <<"nosuch">>),
      Clause("by-open", <<"yes">>),
      Clause("by-open", <<"xyz">>),
      Clause("by-open", <<"">>),
      Clause("by-body", <<"fire">>),
      Clause("by-body", <<"">>),
      Clause("by-num", <<"7">>),
      Clause("by-nope", <<"1">>),
      Clause("streets", <<"main-st", "100-199", "8-blocks">>),
      Clause("streets", <<"main-st", "100-199">>),
      Clause("streets", <<"main-st", "100-199", "xyz">>),
      Clause("streets", <<"main-st", "abc", "8-blocks">>),
      Clause("locations", <<"zip">>),
      Clause("locations", <<"">>),
      Clause("", <<"x">>),
      Clause("bogus", <<"1">>),
      BareClause("by-date"),
      BareClause("filter") }

ParseStrings == SeqsUpTo(ParseClauses, MaxClauses)

\* Requests with and without a schema, with and without a block radius in
\* the context.
ParseContexts == {[schema |-> sch, radius |-> rad] : sch \in {"", CtxSchema}, rad \in {"", "3"}}

\* add(schemafield) with no values, and with the empty string.
ChooserArgs ==
    { AddArg(SfKey("num"), <<>>),
      AddArg(SfKey("tag"), <<Str("")>>) }

NextParse ==
    \/ Fresh /\ \E a \in ParseStrings, ctx \in ParseContexts : DoFromRequest(a, ctx)
    \/ EndRequest
    \/ DropChain
    \/ Return
    \/ \E a \in ChooserArgs : DoAdd("chain", a.key, a.values)
    \/ DoValidate("chain")

SpecParse == Init /\ [][NextParse]_vars

(***************************************************************************)
(* Properties of parsing and of filters that lack their value, checked     *)
(* under SpecParse.                                                        *)
(***************************************************************************)
\* The filter was built without the value it needs.
NonConcrete(f) == f.kind \in {"attr", "bool", "lookup", "location"} /\ ~f.got

\* C11: validate() of a chain that holds a filter built without its required
\* value (the chooser that add() installs for a schema field given no values
\* included) returns a non-empty description of the input needed: it neither
\* raises nor reports the chain complete.
C11_NonConcreteAsksForInput ==
    (/\ last.op = "validate"
     /\ \E i \in 1..Len(heap[last.tgt].items) : NonConcrete(heap[last.tgt].items[i].f))
        => (last.err = "none" /\ last.need # "")

\* The i-th clause of cs is reached by the loop of from_request: every clause
\* holds its '=', and the clauses before it were parsed and stored.
Processed(cs, ctx, reg, i) ==
    /\ \A j \in 1..Len(cs) : cs[j].eq
    /\ FromRequest(SubSeq(cs, 1, i - 1), ctx, reg).err = "none"

\* The field slugs that the clauses reached by the loop name.
SlugsProcessed(cs, ctx, reg) ==
    {FieldSlugOfArgname(cs[i].name) : i \in {j \in 1..Len(cs) : Processed(cs, ctx, reg, j)}}
        \ {""}

\* The i-th clause names a field that the registry does not hold, or that an
\* earlier clause of the string named.
Consumed(cs, reg, i) ==
    /\ FieldSlugOfArgname(cs[i].name) # ""
    /\ \/ FieldSlugOfArgname(cs[i].name) \notin reg
       \/ \E j \in 1..(i - 1) :
              FieldSlugOfArgname(cs[j].name) = FieldSlugOfArgname(cs[i].name)

C16_Step ==
    last'.op = "from_request" =>
        LET cs  == last'.clauses
            ctx == last'.ctx
        IN  /\ registry' = registry \ SlugsProcessed(cs, ctx, registry)
            /\ \A i \in 1..Len(cs) :
                   (Processed(cs, ctx, registry, i) /\ Consumed(cs, registry, i))
                       => (last'.err = "FilterError" /\ heap' = <<>>)

\* C16: from_request removes from the registry the field slug of every
\* by-<slug> clause it reaches, whether or not the filter is then built, and
\* leaves every other entry; a clause whose slug an earlier clause of the
\* string, or an earlier parse with the same registry, has consumed raises
\* FilterError.
C16_RegistryConsumed == [][C16_Step]_vars

\* A parse popped 'open' and then failed on 'by-tag', which an earlier parse
\* with the same registry had consumed; the other fields are still there.
C16_Witness ==
    /\ last.op = "from_request" /\ last.err = "FilterError"
    /\ last.clauses = <<Clause("by-open", <<"yes">>), Clause("by-tag", <<"theft">>)>>
    /\ registry = FieldSlugs \ {"open", "tag"}
    /\ heap = <<>>

\* C17: the filter from_request stores for a by-<slug> clause with values is
\* of the variant of the field's kind (lookup, bool, text search, and the
\* generic attribute filter for any other kind), the variant add() builds
\* for that field and those values.
C17_RoutedByFieldKind ==
    (last.op = "from_request" /\ last.err = "none") =>
        \A i \in 1..Len(last.clauses) :
            LET c    == last.clauses[i]
                slug == FieldSlugOfArgname(c.name)
                sf   == FieldBySlug(slug)
            IN  (c.eq /\ slug \in FieldSlugs /\ NonEmpty(c.vals) # <<>>) =>
                    /\ HasKey(heap[1], sf.name)
                    /\ heap[1].items[IndexOfKey(heap[1], sf.name)].f.kind
                           = (CASE sf.kind = "lookup" -> "lookup"
                                [] sf.kind = "bool" -> "bool"
                                [] sf.kind = "text" -> "text"
                                [] OTHER -> "attr")
                    /\ heap[1].items[IndexOfKey(heap[1], sf.name)].f.kind
                           = FieldFilter(sf, Strs(NonEmpty(c.vals))).f.kind

\* The argnames from_request knows.
Recognised(name) ==
    \/ name \in {"by-date", "by-pub-date"}
    \/ FieldSlugOfArgname(name) # ""
    \/ IsStreets(name) \/ IsLocations(name)

\* C18: when from_request returns a chain for a non-empty argument string
\* (other than the bare word 'filter'), every clause held its '=' and a
\* known argname, and every clause put one filter into the chain.
C18_EveryClauseCounts ==
    (/\ last.op = "from_request" /\ last.err = "none"
     /\ last.clauses # <<>> /\ last.clauses # <<BareClause("filter")>>)
        => /\ \A i \in 1..Len(last.clauses) :
                  last.clauses[i].eq /\ Recognised(last.clauses[i].name)
           /\ Len(heap[1].items)
                  = Len(last.clauses) + (IF last.ctx.schema = "" THEN 0 ELSE 1)

\* C19: from_request ends in a chain, in FilterError or in its subclass
\* DuplicateFilterError; no other exception leaves it.
C19_OnlyFilterErrorEscapes ==
    last.op = "from_request"
        => last.err \in {"none", "FilterError", "DuplicateFilterError"}

\* A 'streets' clause with street and block range and no radius.
NoRadiusClause(c) == c.eq /\ IsStreets(c.name) /\ Len(NonEmpty(c.vals)) = 2

C20_Step ==
    last'.op = "from_request" =>
        \A i \in 1..Len(last'.clauses) :
            (/\ NoRadiusClause(last'.clauses[i])
             /\ Processed(last'.clauses, last'.ctx, registry, i))
                => IF last'.ctx.radius = ""
                   THEN /\ last'.err = "FilterError"
                        /\ ~last'.redirect.none
                        /\ last'.redirect.radius # ""
                        /\ last'.redirect = RadiusUrl(RequestPath,
                                                     BlockRadiusValue(RequestCookie))
                   \* clauses after the i-th may still fail, never for a radius
                   ELSE /\ last'.redirect.none
                        /\ i = Len(last'.clauses)
                               => last'.err \in {"none", "DuplicateFilterError"}
                        /\ last'.err = "none" =>
                               /\ HasKey(heap'[1], "location")
                               /\ heap'[1].items[IndexOfKey(heap'[1], "location")].f.kind
                                      = "block"
                               /\ heap'[1].items[IndexOfKey(heap'[1], "location")].f.args[4]
                                      = last'.ctx.radius

\* C20: a BlockFilter built with no radius argument raises FilterError with a
\* redirect URL that holds a radius, the default one, when the context has no
\* block_radius; when the context has one, the filter is built with that
\* radius and no missing-radius error is raised.
C20_MissingRadiusRedirects == [][C20_Step]_vars

\* 'streets=main-st,100-199' with no radius in the context was refused with
\* a redirect to the default radius.
C20_Witness ==
    /\ last.op = "from_request" /\ last.err = "FilterError"
    /\ last.clauses = <<Clause("streets", <<"main-st", "100-199">>)>>
    /\ last.ctx.radius = ""
    /\ ~last.redirect.none /\ last.redirect.radius = "8"

(***************************************************************************)
(* SpecValues: a request that parses date and bool clauses, adds and       *)
(* replaces date and bool filters, and validates, applies and prints the   *)
(* chain.                                                                  *)
(***************************************************************************)
ValueClauses ==
    { Clause("by-date", <<"2020-01-15", "2020-01-31">>),
      Clause("by-pub-date", <<"2020-01-15", "2020-01-31">>),
      Clause("by-open", <<"yes">>),
      Clause("by-open", <<"no">>),
      Clause("by-open", <<"na">>),
      Clause("by-open", <<"xyz">>),
      Clause("by-open", <<"yes", "no">>),
      Clause("by-open", <<"">>) }

ValueStrings == SeqsUpTo(ValueClauses, MaxClauses)

\* January 2020 begins on a Wednesday, June 2020 on a Monday.
ValueAddArgs ==
    { AddArg(StrKey("date"), <<DateVal(20200115), Str("month")>>),
      AddArg(StrKey("date"), <<DateVal(20200615), Str("month")>>),
      AddArg(StrKey("date"), <<DateVal(20200115), Str("xyz")>>),
      AddArg(StrKey("pubdate"), <<DateVal(20200131), DateVal(20200201)>>),
      AddArg(SfKey("open"), <<Str("no")>>) }

ValueQueries == {NoQs, SomeQs(ItemIds)}

NextValues ==
    \/ Fresh /\ \E a \in ValueStrings, ctx \in Contexts : DoFromRequest(a, ctx)
    \/ EndRequest
    \/ Return
    \/ \E a \in ValueAddArgs : DoAdd("chain", a.key, a.values)
    \/ \E a \in ValueAddArgs : DoReplace("chain", a.key, a.values)
    \/ DoValidate("chain")
    \/ \E q \in ValueQueries : DoApply("chain", q)
    \/ DoMakeUrl("chain", <<>>, <<>>, None, None)

SpecValues == Init /\ [][NextValues]_vars

(***************************************************************************)
(* Properties of the date and bool filters, checked under SpecValues.      *)
(***************************************************************************)
\* add(key, d, 'month') was called with a date d.
MonthAdded ==
    /\ last.op = "add"
    /\ Len(last.adds[1].values) = 2
    /\ last.adds[1].values[1].t = "date"
    /\ last.adds[1].values[2] = Str("month")

\* C21: add(key, d, 'month'), unless it is refused for a key the chain holds,
\* returns and installs a date filter from the first to the last day of the
\* calendar month of d, the filter that the explicit first and last day build.
C21_MonthCoversCalendarMonth ==
    (MonthAdded /\ last.err # "DuplicateFilterError") =>
        LET d     == last.adds[1].values[1].n
            first == MkDate(YearOf(d), MonthOf(d), 1)
            end   == MkDate(YearOf(d), MonthOf(d), DaysInMonth(YearOf(d), MonthOf(d)))
        IN  /\ last.err = "none"
            /\ last.f.lo = first
            /\ last.f.hi = end
            /\ last.f = DateFilter(NoQs, <<DateVal(first), DateVal(end)>>).f

\* The date field that a filter of the date kind reads.
DateOf(i, f) == IF f.kind = "pubdate" THEN ItemRow(i).pub ELSE ItemRow(i).date

DateKind(f) == f.kind \in {"date", "pubdate"}

\* The filter that from_request builds from the URL fragment alone.
Reparsed(frag) ==
    Only({ IF r.err = "none" /\ Len(r.h[1].items) = 1 THEN r.h[1].items[1].f ELSE NoFilter :
           r \in {FromRequest(<<ClauseOfFragment(frag)>>, [schema |-> "", radius |-> ""],
                              FieldSlugs)} })

\* C22: a filter of the date kind built from start and end selects the items
\* dated from start to end, the end date included and the day after it left
\* out; its URL fragment is its argname with start and end as ten-character
\* dates, and from_request builds from that fragment a filter of the same
\* kind, start and end.
C22_DateRangeInclusive ==
    \A k \in 1..(IF heap = <<>> THEN 0 ELSE Len(heap[1].items)) :
        LET f == heap[1].items[k].f
        IN  DateKind(f) =>
                /\ (last.op = "apply" /\ last.err = "none") =>
                        \A i \in last.q.s : f.lo <= DateOf(i, f) /\ DateOf(i, f) <= f.hi
                /\ (/\ last.op = "apply" /\ last.err = "none" /\ last.qin.some
                    /\ Len(heap[1].items) = 1) =>
                        last.q.s = {i \in last.qin.s :
                                        f.lo <= DateOf(i, f) /\ DateOf(i, f) <= f.hi}
                /\ (last.op = "make_url" /\ last.err = "none") =>
                        \E j \in 1..Len(last.url.params) :
                            LET p == last.url.params[j]
                            IN  /\ p.name = <<IF f.kind = "date" THEN "by-date"
                                              ELSE "by-pub-date">>
                                /\ Len(p.vals) = 2
                                /\ Len(p.vals[1]) = 10 /\ Len(p.vals[2]) = 10
                                /\ \E g \in {Reparsed(p)} :
                                       g.kind = f.kind /\ g.lo = f.lo /\ g.hi = f.hi

\* A date filter that ends on 2020-01-31, applied to every item: the item of
\* that day is in, the item of the day after is out.
C22_Witness ==
    /\ last.op = "apply" /\ last.err = "none" /\ last.qin = SomeQs(ItemIds)
    /\ Len(heap[1].items) = 1
    /\ heap[1].items[1].f.kind = "date" /\ heap[1].items[1].f.hi = 20200131
    /\ ItemRow(2).date = 20200131 /\ 2 \in last.q.s
    /\ ItemRow(3).date = NextDay(20200131) /\ 3 \notin last.q.s

\* The tokens of a 'by-open' clause.
OpenTokens(c) == NonEmpty(c.vals)

\* The stored value of the bool attribute that a token stands for.
ExpectedBool(token) ==
    CASE token = "yes" -> "True"
      [] token = "no"  -> "False"
      [] token = "na"  -> "None"

\* The bool filters of the request's chain.
BoolsOf(c) == {c.items[i].f : i \in {j \in 1..Len(c.items) : c.items[j].f.kind = "bool"}}

C23_Step ==
    /\ (last'.op = "from_request" /\ last'.clauses # <<>> /\ "open" \in registry
            /\ last'.clauses[1].eq /\ last'.clauses[1].name = "by-open") =>
          \E t \in {OpenTokens(last'.clauses[1])} :
            /\ (Len(t) > 1 \/ (Len(t) = 1 /\ t[1] \notin {"yes", "no", "na"}))
                    => last'.err = "FilterError"
            /\ (Len(t) = 0 \/ (Len(t) = 1 /\ t[1] \in {"yes", "no", "na"}))
                    => /\ Len(last'.clauses) = 1 => last'.err = "none"
                       /\ last'.err = "none" =>
                            \E f \in BoolsOf(heap'[1]) :
                                /\ f.sf = "open" /\ f.args = t /\ f.got = (Len(t) = 1)
                                /\ Len(t) = 0 => FilterValidate(f) = Need("open")
    /\ (last'.op = "apply" /\ last'.err = "none") =>
          \A f \in BoolsOf(heap'[1]) :
              \A i \in last'.q.s : ItemRow(i).open = ExpectedBool(f.args[1])
    /\ (last'.op = "validate" /\ \E f \in BoolsOf(heap'[1]) : ~f.got) =>
          /\ last'.err = "none" /\ last'.need = "open"
          /\ BoolLookupList = <<"yes", "no", "na">>

\* C23: a bool filter is built from one token: 'yes' selects the items whose
\* attribute is true, 'no' those where it is false, 'na' those where it is
\* null; any other token, and two tokens or more, raise FilterError; with no
\* token the filter is built without a value, and validate() asks for the
\* field with the choice list yes, no, na.
C23_BoolTokens == [][C23_Step]_vars

\* 'by-open=na', applied to every item, kept the item whose attribute is null.
C23_Witness ==
    /\ last.op = "apply" /\ last.err = "none" /\ last.qin = SomeQs(ItemIds)
    /\ Len(heap[1].items) = 1
    /\ heap[1].items[1].f.kind = "bool" /\ heap[1].items[1].f.args = <<"na">>
    /\ last.q.s = {3} /\ ItemRow(3).open = "None"

C27_Step ==
    (last'.op = "replace" /\ last'.err = "FilterError") => heap' = heap

\* C27: a replace(key, values) that raises FilterError, the new filter not
\* being built, leaves the chain as it was: the entry stored under key is
\* still there, in its place.
C27_FailedReplaceKeepsEntry == [][C27_Step]_vars

\* The filters of a chain that belong to a schema field, by field.
FieldsOf(c) == [i \in 1..Len(c.items) |-> c.items[i].f.sf]

\* C28: from_request and add(schema_field, values) store the filter of a
\* schema field under one and the same key, so that a chain never holds two
\* filters of one field: the second insertion raises DuplicateFilterError.
C28_OneFilterPerField ==
    \A id \in 1..Len(heap) :
        \A i, j \in 1..Len(heap[id].items) :
            (i < j /\ FieldsOf(heap[id])[i] # "")
                => FieldsOf(heap[id])[i] # FieldsOf(heap[id])[j]

(***************************************************************************)
(* SpecUrl: the chain of a request's argument string, every filter with    *)
(* its value, printed as a URL before it is applied.                       *)
(***************************************************************************)
UrlBases == {None, Some("/filter/")}

NextUrl ==
    \/ Fresh /\ \E a \in ApplyStrings, ctx \in Contexts : DoFromRequest(a, ctx)
    \/ EndRequest
    \/ Return
    \/ \E b \in UrlBases : DoMakeUrl("chain", <<>>, <<>>, None, b)

SpecUrl == Init /\ [][NextUrl]_vars

\* The clauses of the filter string of a URL; a URL of None holds none.
ClausesOfUrl(url) ==
    IF url.none THEN <<>>
    ELSE [i \in 1..Len(url.params) |-> ClauseOfFragment(url.params[i])]

\* The URL fragment of each filter of a chain, <<>> for a url of None.
FragmentsOf(c) ==
    [i \in 1..Len(c.items) |->
        IF UrlIsNone(c.items[i].f) THEN <<>> ELSE <<FilterUrl(c.items[i].f)>>]

\* C26: the filter string of make_url's URL for a chain that from_request
\* built, every filter with its value and none applied yet, parses with a
\* fresh field registry into a chain of the same keys in the same order
\* whose filters have the same URL fragments.
C26_UrlRoundTrip ==
    (/\ last.op = "make_url" /\ last.err = "none"
     /\ \A i \in 1..Len(heap[1].items) : ~NonConcrete(heap[1].items[i].f))
        => \E r \in {FromRequest(ClausesOfUrl(last.url),
                                 [schema |-> heap[1].schema, radius |-> ""],
                                 FieldSlugs)} :
               /\ r.err = "none"
               /\ KeysOf(r.h[1]) = KeysOf(heap[1])
               /\ FragmentsOf(r.h[1]) = FragmentsOf(heap[1])

====
